---- MODULE Spec2Model ----
(***************************************************************************)
(* A model of CloudAWSync: the sync engine (internal/engine/engine.go),    *)
(* the service orchestrator (internal/service/service.go), the file        *)
(* watcher and batcher (internal/watcher/watcher.go) and the key handling  *)
(* of the S3 provider.                                                     *)
(*                                                                         *)
(* Strings (paths, keys, glob patterns) are sequences of one-character     *)
(* strings, so that the prefix, join and clean operations of the Go        *)
(* standard library are computed character by character as the code does.  *)
(*                                                                         *)
(* The specifications sharing the module:                                  *)
(*   Spec       lifecycle of the engine and the service (Start, Stop,      *)
(*              workers, event handler, scheduler, startup reconciliation) *)
(*   SpecStop   Spec under fair scheduling of Stop and the goroutines      *)
(*   SpecStart  Spec with a file watcher whose Watch can fail              *)
(*   SpecRecon  reconciliation passes of one directory against the bucket  *)
(*   SpecWatch  the event pipeline: watcher, batcher, event dispatch       *)
(*   SpecTask   a worker executing upload and download tasks with retries  *)
(*   SpecWorker SpecTask under fair scheduling of the worker               *)
(*   SpecService  Service.Start, Stop and UpdateConfig on the component set *)
(*   SpecDispatch the dispatch of batched events over nested directories  *)
(*   SpecTransfer the bytes, digests and headers of one upload or download *)
(*   SpecEnum     the local enumeration of a pass with failing entries     *)
(*   SpecDirs     the directory set at run time: startup and scheduled     *)
(*                passes, dispatch, RemoveDirectory                        *)
(***************************************************************************)
EXTENDS Integers, Sequences, FiniteSets, Bags, TLC

VARIABLES
  \* ---- reconciliation (SpecRecon)
  s3prefix,      \* S3Provider.prefix
  dir,           \* the SyncDirectory being reconciled
  localFS,       \* local files: path -> [ModTime, Size]
  bucket,        \* remote objects: set of [Key, ModTime, Size], Key is the full key
  now,           \* wall clock: the time of the latest local write
  pass,          \* the reconciliation pass in progress (locals of syncDirectory)
  rqueue,        \* Engine.uploadQueue as seen by the pass and one worker
  rhist,         \* history: passes run, local writes, whether the remote is settled
  \* ---- lifecycle of the engine and the service (Spec)
  cfgDir,        \* the configured directory: its sync_mode and its enabled flag
  api,           \* who drives the engine: the service, or a direct user of the engine
  cpc,           \* per caller thread: the API call in progress and its position
  cret,          \* what the last call that returned has returned
  smutex,        \* Service.mutex: "free" or the caller holding it
  srunning,      \* Service.running
  sctx,          \* Service.ctx: "none", "live" or "cancelled"
  running,       \* Engine.running
  stopClosed,    \* Engine.stopChan is closed
  queuesClosed,  \* Engine.uploadQueue and Engine.downloadQueue are closed
  uqLen,         \* number of tasks buffered in Engine.uploadQueue
  directories,   \* Engine.directories
  wDone,         \* the watcher has been stopped (FSWatcher.done, eventChan closed)
  gs,            \* the goroutines alive: a bag of [k, pc, ctx, left]
  wg,            \* Engine.wg counter
  panicked,      \* "no", or the run-time panic that ended the process
  stopReturned,  \* history: an Engine.Stop call that stopped the engine has returned
  \* ---- the event pipeline (SpecWatch)
  filters,       \* FSWatcher.filters
  exists,        \* the watched files that exist (what os.Stat finds)
  clock,         \* time.Now() as the watcher reads it: one tick per FileEvent made
  eventChan,     \* FSWatcher.eventChan
  done,          \* FSWatcher.done and eventChan are closed
  wctx,          \* the context given to Watch and to the engine: "live" or "cancelled"
  batcher,       \* batchEvents: [pc, todo], todo the paths flushEvents has still to send
  eventMap,      \* batchEvents' eventMap: path -> latest FileEvent
  batchedEvents, \* the batcher's output channel
  outClosed,     \* the batcher's output channel is closed
  uploadQueue,   \* Engine.uploadQueue as filled by processFileEvent
  wpanic,        \* "no", or the run-time panic that ended the process
  window,        \* history: number of the flush window the batcher is in
  wstats,        \* Engine.stats as the upload worker of the pipeline updates it
  evlog,         \* history: FileEvent number t -> [Path, Operation, win, fate, emits, tasks]
  engineDirs,    \* Engine.directories as processFileEvent reads it
  \* ---- a worker and its tasks (SpecTask)
  retryAttempts, \* Engine.retryAttempts, from performance.retry_attempts
  tctx,          \* the context given to the worker: "live" or "cancelled"
  tqueue,        \* the queue the worker receives from: tasks [op, size]
  worker,        \* the worker: position, current task, locals of process*Task
  stats,         \* Engine.stats
  currentMetrics,\* the collector's Metrics: BandwidthUp, BandwidthDown, SyncStats
  thist,         \* history: tasks taken, bytes of the uploads that succeeded
  \* ---- the service and its reconfiguration (SpecService)
  sv,            \* the Service: config, provider, watcher, metrics, engine, running, ctx
  svmutex,       \* Service.mutex: "free" or the thread that locked it
  scall,         \* per caller thread: the call in progress, its position and locals
  sret,          \* what the last call that returned has returned, and to whom
  engines,       \* the engines made so far: generation -> state of the engine
  ngen,          \* the number of component sets made since NewService
  nupd,          \* the number of UpdateConfig calls made
  spanic,        \* "no", or the run-time panic that ended the process
  \* ---- one transfer (SpecTransfer)
  localFile,     \* the file at task.localPath: [exists, data]
  s3object,      \* the object under the task's key: [exists, Body, md5hash]
  puts,          \* history: the PUTs the store accepted, with the bytes hashed
  xfer,          \* the task and the locals of uploadFile / downloadFile
  \* ---- the directory set at run time (SpecDirs)
  sdirs,         \* Service.config.Directories: [arr, len] the backing array and length
  startup,       \* performInitialSync: position, range index and length, tasks spawned
  ticker,        \* scheduledSyncWorker: position, tick number, directories still to pass
  plog,          \* history: passes and dispatches counted by directory, removals
  \* ---- the local enumeration of one pass (SpecEnum)
  ltree,         \* the local tree: the files present and the entry that fails
  scan           \* one call of syncDirectory: its directory, position, error, tasks

lifeVars == <<cfgDir, api, cpc, cret, smutex, srunning, sctx, running, stopClosed,
              queuesClosed, uqLen, directories, wDone, gs, wg, panicked, stopReturned>>

reconVars == <<s3prefix, dir, localFS, bucket, now, pass, rqueue, rhist>>

watchVars == <<filters, exists, clock, eventChan, done, wctx, batcher, eventMap,
               batchedEvents, outClosed, uploadQueue, wpanic, wstats, window, evlog>>

taskVars == <<retryAttempts, tctx, tqueue, worker, stats, currentMetrics, thist>>

svcVars == <<sv, svmutex, scall, sret, engines, ngen, nupd, spanic>>

xferVars == <<localFile, s3object, puts, xfer>>

dirVars == <<sdirs, startup, ticker, plog>>

enumVars == <<ltree, scan>>

vars == <<reconVars, lifeVars, watchVars, taskVars, svcVars, xferVars, dirVars, enumVars,
          engineDirs>>

\* the elements of a sequence
Range(q) == {q[i] : i \in 1..Len(q)}

\* the value of a variable whose object has not been made
Nil == [nil |-> TRUE]

\* what the actions of one specification leave alone
\* (the directory list is set by AddDirectory before Start: no action changes it)
outsideRecon ==
  <<lifeVars, watchVars, taskVars, svcVars, xferVars, dirVars, enumVars, engineDirs>>
outsideLife ==
  <<reconVars, watchVars, taskVars, svcVars, xferVars, dirVars, enumVars, engineDirs>>
outsideWatch ==
  <<reconVars, lifeVars, taskVars, svcVars, xferVars, dirVars, enumVars, engineDirs>>
outsideTask ==
  <<reconVars, lifeVars, watchVars, svcVars, xferVars, dirVars, enumVars, engineDirs>>
outsideService ==
  <<reconVars, lifeVars, watchVars, taskVars, xferVars, dirVars, enumVars, engineDirs>>
outsideDirs == <<reconVars, lifeVars, watchVars, taskVars, svcVars, xferVars, enumVars>>
outsideEnum ==
  <<reconVars, lifeVars, watchVars, taskVars, svcVars, xferVars, dirVars, engineDirs>>
outsideTransfer ==
  <<reconVars, lifeVars, watchVars, taskVars, svcVars, dirVars, enumVars, engineDirs>>

(***************************************************************************)
(* Go standard library: strings and path/filepath (Unix).                  *)
(***************************************************************************)
HasPrefix(s, p) == Len(p) <= Len(s) /\ SubSeq(s, 1, Len(p)) = p

HasSuffix(s, x) == Len(x) <= Len(s) /\ SubSeq(s, Len(s) - Len(x) + 1, Len(s)) = x

TrimPrefix(s, p) == IF HasPrefix(s, p) THEN SubSeq(s, Len(p) + 1, Len(s)) ELSE s

RECURSIVE SplitPath(_)
\* strings.Split(s, "/"): the pieces between separators, empty pieces included
SplitPath(s) ==
  IF s = <<>> THEN << <<>> >>
  ELSE LET rest == SplitPath(Tail(s))
       IN  IF Head(s) = "/" THEN << <<>> >> \o rest
           ELSE << <<Head(s)>> \o Head(rest) >> \o Tail(rest)

RECURSIVE JoinComps(_)
JoinComps(comps) ==
  IF comps = <<>> THEN <<>>
  ELSE IF Len(comps) = 1 THEN comps[1]
  ELSE comps[1] \o <<"/">> \o JoinComps(Tail(comps))

DotDot == <<".", ".">>

RECURSIVE CleanComps(_, _, _)
\* the element loop of filepath.Clean: drops empty and "." elements, resolves ".."
CleanComps(comps, out, rooted) ==
  IF comps = <<>> THEN out
  ELSE LET c == Head(comps)
       IN  IF c = <<>> \/ c = <<".">> THEN CleanComps(Tail(comps), out, rooted)
           ELSE IF c = DotDot
                THEN IF out # <<>> /\ out[Len(out)] # DotDot
                     THEN CleanComps(Tail(comps), SubSeq(out, 1, Len(out) - 1), rooted)
                     ELSE IF rooted THEN CleanComps(Tail(comps), out, rooted)
                     ELSE CleanComps(Tail(comps), Append(out, c), rooted)
                ELSE CleanComps(Tail(comps), Append(out, c), rooted)

Clean(path) ==
  IF path = <<>> THEN <<".">>
  ELSE LET rooted == (path[1] = "/")
           out    == CleanComps(SplitPath(path), <<>>, rooted)
       IN  IF rooted THEN <<"/">> \o JoinComps(out)
           ELSE IF out = <<>> THEN <<".">> ELSE JoinComps(out)

\* filepath.Join of two elements: empty elements are ignored, the result is cleaned
Join(a, b) ==
  IF a = <<>> /\ b = <<>> THEN <<>>
  ELSE IF a = <<>> THEN Clean(b)
  ELSE IF b = <<>> THEN Clean(a)
  ELSE Clean(a \o <<"/">> \o b)

\* the non-empty elements of a path
Elems(path) == SelectSeq(SplitPath(path), LAMBDA c : c # <<>>)

Base(path) ==
  IF path = <<>> THEN <<".">>
  ELSE LET es == Elems(path)
       IN  IF es = <<>> THEN <<"/">> ELSE es[Len(es)]

RECURSIVE CommonLen(_, _)
CommonLen(a, b) ==
  IF a = <<>> \/ b = <<>> \/ Head(a) # Head(b) THEN 0
  ELSE 1 + CommonLen(Tail(a), Tail(b))

\* filepath.Rel: [ok |-> FALSE] is the error return
Rel(basepath, targpath) ==
  LET base == Clean(basepath)
      targ == Clean(targpath)
      bc   == IF base = <<".">> THEN <<>> ELSE Elems(base)
      tc   == IF targ = <<".">> THEN <<>> ELSE Elems(targ)
      k    == CommonLen(bc, tc)
      ups  == [i \in 1..(Len(bc) - k) |-> DotDot]
  IN  IF targ = base THEN [ok |-> TRUE, path |-> <<".">>]
      ELSE IF (base[1] = "/") # (targ[1] = "/") THEN [ok |-> FALSE, path |-> <<>>]
      ELSE IF k < Len(bc) /\ bc[k + 1] = DotDot THEN [ok |-> FALSE, path |-> <<>>]
      ELSE [ok |-> TRUE, path |-> JoinComps(ups \o SubSeq(tc, k + 1, Len(tc)))]

RECURSIVE Match(_, _)
\* filepath.Match for patterns made of literals, '?' and '*'
Match(pat, name) ==
  IF pat = <<>> THEN name = <<>>
  ELSE IF Head(pat) = "*"
       THEN \E i \in 0..Len(name) :
              /\ \A j \in 1..i : name[j] # "/"
              /\ Match(Tail(pat), SubSeq(name, i + 1, Len(name)))
  ELSE IF name = <<>> THEN FALSE
  ELSE IF Head(pat) = "?" THEN Head(name) # "/" /\ Match(Tail(pat), Tail(name))
  ELSE Head(pat) = Head(name) /\ Match(Tail(pat), Tail(name))


(***************************************************************************)
(* Reconciliation of one directory (SpecRecon).                            *)
(***************************************************************************)
MaxWrites == 1      \* local writes in one behaviour
MaxPasses == 2      \* reconciliation passes in one behaviour
RQueueCap == 1      \* capacity of the upload queue in this specification

Root == <<"/", "r">>
FileF == <<"/", "r", "/", "f">>
FileG == <<"/", "r", "/", "d", "/", "g">>
FileH == <<"/", "r", "/", ".", "h">>
FileT == <<"/", "r", "/", "t", "~">>
Files == {FileF, FileG, FileH, FileT}
Sizes == {1, 2}
\* the file the user rewrites in this specification
Written == {FileF}

\* the S3 prefixes and directory records the configuration accepts
\* (Config.Validate checks neither s3_prefix nor remote_path)
Prefixes == {<<>>, <<"p", "/">>, <<"p">>}
RemotePaths == {<<"b", "/">>}
Dirs == [LocalPath : {Root}, RemotePath : RemotePaths, Recursive : BOOLEAN,
         Filters : {<< <<"*", "~">> >>}, Enabled : BOOLEAN]

\* S3Provider.addPrefix
addPrefix(key) == IF s3prefix = <<>> THEN key ELSE Join(s3prefix, key)

\* S3Provider.removePrefix
removePrefix(key) ==
  IF s3prefix = <<>> THEN key
  ELSE IF HasPrefix(key, s3prefix) THEN TrimPrefix(key, s3prefix)
  ELSE key

\* S3Provider.List: every object whose full key starts with the full prefix,
\* reported under its key with the provider prefix removed
List(prefix) ==
  LET fullPrefix == addPrefix(prefix)
  IN  {[Key |-> removePrefix(o.Key), Size |-> o.Size, ModTime |-> o.ModTime] :
         o \in {x \in bucket : HasPrefix(x.Key, fullPrefix)}}

\* a file lies in the tree under a directory (element-wise)
IsUnder(f, root) ==
  LET rc == Elems(root)
      fc == Elems(f)
  IN  Len(fc) > Len(rc) /\ SubSeq(fc, 1, Len(rc)) = rc

\* Engine.getLocalFiles: the walk (recursive) or the immediate entries
getLocalFiles(rootPath, recursive) ==
  LET found == {f \in DOMAIN localFS :
                  /\ IsUnder(f, rootPath)
                  /\ (recursive \/ Len(Elems(f)) = Len(Elems(rootPath)) + 1)}
  IN  [f \in found |-> localFS[f]]

\* Engine.shouldSyncFile
shouldSyncFile(path, dirFilters) ==
  LET filename == Base(path)
  IN  /\ ~HasPrefix(filename, <<".">>)
      /\ \A i \in 1..Len(dirFilters) : ~Match(dirFilters[i], filename)

\* a getRelativePath that always takes its fallback: the base name
Mut_getRelativePath(fullPath, rootPath) == Base(fullPath)

\* Engine.getRelativePath
getRelativePath(fullPath, rootPath) ==
  LET r == Rel(rootPath, fullPath)
  IN  IF r.ok THEN r.path ELSE Base(fullPath)

\* a needsUpload whose time test is "not before" instead of "after"
Mut_needsUpload(localInfo, remoteInfo) ==
  localInfo.ModTime >= remoteInfo.ModTime \/ localInfo.Size # remoteInfo.Size

\* Engine.needsUpload
needsUpload(localInfo, remoteInfo) ==
  localInfo.ModTime > remoteInfo.ModTime \/ localInfo.Size # remoteInfo.Size

\* the remote path syncDirectory computes for a local path
remotePathOf(localPath, d) ==
  Join(d.RemotePath, getRelativePath(localPath, d.LocalPath))

\* remoteFileMap lookup: the listing entries stored under a key
remoteEntry(remoteFiles, key) == {e \in remoteFiles : e.Key = key}

\* the test of syncDirectory's loop body: !exists || needsUpload
wantsUpload(localInfo, remoteFiles, key) ==
  \/ remoteEntry(remoteFiles, key) = {}
  \/ \E e \in remoteEntry(remoteFiles, key) : needsUpload(localInfo, e)

\* the locals of syncDirectory: ctx is the context the pass was given, cur
\* the file whose task the select of a blocked pass is waiting to send
IdlePass == [pc |-> "idle", localFiles |-> <<>>, remoteFiles |-> {},
             todo |-> {}, tasks |-> {}, ctx |-> "live", cur |-> <<>>]

\* the pass has returned
PassReturned == pass.pc \in {"idle", "done", "failed", "cancelled"}

ReconInit ==
  /\ s3prefix \in Prefixes
  /\ dir \in Dirs
  /\ localFS = [f \in Files |-> [ModTime |-> 0, Size |-> 1]]
  /\ bucket = {}
  /\ now = 0
  /\ pass = IdlePass
  /\ rqueue = <<>>
  /\ rhist = [passes |-> 0, writes |-> 0, dirty |-> FALSE, settled |-> FALSE]

\* no directory is being reconciled
ReconIdle ==
  /\ s3prefix = <<>>
  /\ dir = Nil
  /\ localFS = <<>>
  /\ bucket = {}
  /\ now = 0
  /\ pass = Nil
  /\ rqueue = <<>>
  /\ rhist = Nil

\* a local file is rewritten, at a later time than everything before
LocalWrite ==
  /\ rhist.writes < MaxWrites
  /\ now' = now + 1
  /\ \E f \in Written, sz \in Sizes :
       localFS' = [localFS EXCEPT ![f] = [ModTime |-> now', Size |-> sz]]
  /\ rhist' = [rhist EXCEPT !.writes = @ + 1, !.dirty = TRUE]
  /\ UNCHANGED <<outsideRecon, s3prefix, dir, bucket, pass, rqueue>>

\* Engine.Sync on a directory that is not enabled: returns nil at once
SyncDisabled ==
  /\ PassReturned
  /\ rhist.passes < MaxPasses
  /\ ~dir.Enabled
  /\ pass' = [IdlePass EXCEPT !.pc = "done"]
  /\ rhist' = [rhist EXCEPT !.passes = @ + 1]
  /\ UNCHANGED <<outsideRecon, s3prefix, dir, localFS, bucket, now, rqueue>>

\* Engine.Sync on an enabled directory calls syncDirectory; this is
\* syncDirectory up to the loop: local enumeration and remote listing
PassStart ==
  /\ PassReturned
  /\ rhist.passes < MaxPasses
  /\ dir.Enabled
  /\ LET lf == getLocalFiles(dir.LocalPath, dir.Recursive)
     IN  pass' = [IdlePass EXCEPT !.pc = "loop", !.localFiles = lf,
                                   !.remoteFiles = List(dir.RemotePath), !.todo = DOMAIN lf]
  /\ rhist' = [rhist EXCEPT !.passes = @ + 1, !.dirty = FALSE,
                 !.settled = /\ pass.pc = "done"
                             /\ rqueue = <<>>
                             /\ ~rhist.dirty]
  /\ UNCHANGED <<outsideRecon, s3prefix, dir, localFS, bucket, now, rqueue>>

\* syncDirectory: provider.List fails, the pass returns the error
PassListFail ==
  /\ PassReturned
  /\ rhist.passes < MaxPasses
  /\ dir.Enabled
  /\ pass' = [IdlePass EXCEPT !.pc = "failed"]
  /\ rhist' = [rhist EXCEPT !.passes = @ + 1, !.dirty = TRUE, !.settled = FALSE]
  /\ UNCHANGED <<outsideRecon, s3prefix, dir, localFS, bucket, now, rqueue>>

\* the syncTask syncDirectory makes for a local file
passTask(f) ==
  [localPath |-> f, remotePath |-> remotePathOf(f, dir), operation |-> "upload",
   fileInfo |-> pass.localFiles[f]]

\* the pass after the task of file f went into the queue
Sent(f) == [pass EXCEPT !.pc = "loop", !.todo = @ \ {f}, !.tasks = @ \cup {passTask(f)},
                        !.cur = <<>>]

\* a select that gives up the task when the queue is full
Mut_PassSelect(f) ==
  \/ /\ Len(rqueue) < RQueueCap
     /\ rqueue' = Append(rqueue, passTask(f))
     /\ pass' = Sent(f)
  \/ /\ pass.ctx = "cancelled"
     /\ pass' = [pass EXCEPT !.pc = "cancelled"]
     /\ UNCHANGED rqueue
  \/ /\ Len(rqueue) >= RQueueCap /\ pass.ctx = "live"
     /\ pass' = [pass EXCEPT !.todo = @ \ {f}]
     /\ UNCHANGED rqueue

\* syncDirectory's select for the task of file f: the send when the queue has
\* room, the return of ctx.Err() when the context is cancelled (either one
\* when both are ready), and otherwise the pass blocks on both
PassSelect(f) ==
  \/ /\ Len(rqueue) < RQueueCap
     /\ rqueue' = Append(rqueue, passTask(f))
     /\ pass' = Sent(f)
  \/ /\ pass.ctx = "cancelled"
     /\ pass' = [pass EXCEPT !.pc = "cancelled"]
     /\ UNCHANGED rqueue
  \/ /\ Len(rqueue) >= RQueueCap /\ pass.ctx = "live"
     /\ pass' = [pass EXCEPT !.pc = "wait", !.cur = f]
     /\ UNCHANGED rqueue

\* syncDirectory: one iteration of the loop over localFiles (map order)
PassStep ==
  /\ pass.pc = "loop"
  /\ \E f \in pass.todo :
       IF /\ shouldSyncFile(f, dir.Filters)
          /\ wantsUpload(pass.localFiles[f], pass.remoteFiles, remotePathOf(f, dir))
       THEN PassSelect(f)
       ELSE /\ pass' = [pass EXCEPT !.todo = @ \ {f}]
            /\ UNCHANGED rqueue
  /\ UNCHANGED <<outsideRecon, s3prefix, dir, localFS, bucket, now, rhist>>

\* the context of the pass is cancelled; a pass blocked in its select takes
\* ctx.Done() and returns ctx.Err()
PassCancel ==
  /\ pass.pc \in {"loop", "wait"}
  /\ pass.ctx = "live"
  /\ pass' = [pass EXCEPT !.ctx = "cancelled",
                          !.pc = IF pass.pc = "wait" THEN "cancelled" ELSE @]
  /\ UNCHANGED <<outsideRecon, s3prefix, dir, localFS, bucket, now, rqueue, rhist>>

\* a worker receives the head of the queue: the send of a blocked pass
\* completes with the receive
Received ==
  /\ rqueue' = IF pass.pc = "wait" THEN Append(Tail(rqueue), passTask(pass.cur))
               ELSE Tail(rqueue)
  /\ pass' = IF pass.pc = "wait" THEN Sent(pass.cur) ELSE pass

\* syncDirectory returns nil
PassEnd ==
  /\ pass.pc = "loop"
  /\ pass.todo = {}
  /\ pass' = [pass EXCEPT !.pc = "done"]
  /\ UNCHANGED <<outsideRecon, s3prefix, dir, localFS, bucket, now, rqueue, rhist>>

\* a worker takes the head task and the upload succeeds: the object is stored
\* under the prefixed key with the size read and the store's time
UploadOk ==
  /\ rqueue # <<>>
  /\ LET task == Head(rqueue)
         key  == addPrefix(task.remotePath)
     IN  bucket' = {o \in bucket : o.Key # key} \cup
                   {[Key |-> key, Size |-> localFS[task.localPath].Size, ModTime |-> now]}
  /\ Received
  /\ UNCHANGED <<outsideRecon, s3prefix, dir, localFS, now, rhist>>

\* a worker takes the head task and the upload fails after its retries
UploadFail ==
  /\ rqueue # <<>>
  /\ Received
  /\ rhist' = [rhist EXCEPT !.dirty = TRUE]
  /\ UNCHANGED <<outsideRecon, s3prefix, dir, localFS, bucket, now>>

NextRecon ==
  \/ LocalWrite
  \/ SyncDisabled
  \/ PassStart
  \/ PassListFail
  \/ PassStep
  \/ PassCancel
  \/ PassEnd
  \/ UploadOk
  \/ UploadFail



(***************************************************************************)
(* Claims about reconciliation.                                            *)
(***************************************************************************)
\* the tasks of the current pass that name a local file
tasksFor(f) == {t \in pass.tasks : t.localPath = f}

\* C5: in a completed pass a local file that survives the filters has an
\* upload task exactly if the listing has no entry under its remote key, or
\* its modification time is strictly later than the entry's, or its size
\* differs from the entry's; every other file of the pass has no task.
C5_UploadIffAbsentNewerOrResized ==
  pass.pc = "done" =>
    \A f \in DOMAIN pass.localFiles :
      LET info    == pass.localFiles[f]
          entries == {e \in pass.remoteFiles : e.Key = remotePathOf(f, dir)}
      IN  IF shouldSyncFile(f, dir.Filters)
          THEN (tasksFor(f) # {}) <=>
                 \/ entries = {}
                 \/ \E e \in entries : info.ModTime > e.ModTime \/ info.Size # e.Size
          ELSE tasksFor(f) = {}

\* a completed pass that uploads one file because it is newer than its remote
\* entry and leaves alone another file that has an up-to-date remote entry
C5_Witness ==
  /\ pass.pc = "done"
  /\ \E f, g \in DOMAIN pass.localFiles :
       /\ tasksFor(f) # {}
       /\ \E e \in pass.remoteFiles :
            e.Key = remotePathOf(f, dir) /\ pass.localFiles[f].ModTime > e.ModTime
       /\ tasksFor(g) = {}
       /\ shouldSyncFile(g, dir.Filters)
       /\ \E e \in pass.remoteFiles : e.Key = remotePathOf(g, dir)

\* C6: a pass that starts after the previous pass completed, all uploads since
\* succeeded and no local file changed, enqueues no upload task, whatever the
\* provider prefix and the directory's remote path.
C6_SettledPassEnqueuesNothing ==
  (rhist.settled /\ ~rhist.dirty) => pass.tasks = {}

\* the remote key of the specification: the elements of the remote prefix, then
\* the elements of the local path below the local root, joined by "/"
SpecKey(d, f) ==
  JoinComps(Elems(d.RemotePath) \o
            SubSeq(Elems(f), Len(Elems(d.LocalPath)) + 1, Len(Elems(f))))

\* the tasks produced by the pass, queued or not
passTasks == pass.tasks \cup {rqueue[i] : i \in 1..Len(rqueue)}

\* C7: every upload task of a reconciliation has a local path under the
\* directory's local root and the remote key join(remote_prefix,
\* relpath(local_path, local_root)) with forward slashes.
C7_TaskPathsUnderRootAndPrefix ==
  \A t \in passTasks :
    /\ HasPrefix(t.localPath, dir.LocalPath \o <<"/">>)
    /\ t.remotePath = SpecKey(dir, t.localPath)

\* a task for a file in a subdirectory of the root
C7_Witness ==
  \E t \in pass.tasks :
    t.localPath = FileG /\ t.remotePath = <<"b", "/", "d", "/", "g">>

\* C26: the key namespace round trip.  Whatever the provider prefix (empty,
\* with or without a trailing slash), the key under which the provider
\* stores the object of an upload task is reported by the listing as the
\* task's key: removePrefix(addPrefix(k)) = k.
C26_KeyRoundTrip ==
  \A task \in passTasks :
    /\ removePrefix(addPrefix(task.remotePath)) = task.remotePath
    /\ \A o \in bucket :
         o.Key = addPrefix(task.remotePath) =>
           \E e \in List(<<>>) : e.Key = task.remotePath /\ e.Size = o.Size

\* the files a step of the running pass is done with
Passed == IF pass.pc \in {"loop", "wait"} /\ pass'.pc \in {"loop", "wait", "done"}
          THEN pass.todo \ pass'.todo ELSE {}

\* C29: the enqueue of reconciliation is a blocking send that observes
\* cancellation.  A file that needs an upload leaves the loop only with its
\* task in the queue; a pass blocked on the full queue keeps the task it is
\* sending; and when its context is cancelled while it is blocked, the pass
\* returns the cancellation error and enqueues nothing from then on.
C29_BlockingSendObservesCancellation ==
  [][/\ \A f \in Passed :
          (/\ shouldSyncFile(f, dir.Filters)
           /\ wantsUpload(pass.localFiles[f], pass.remoteFiles, remotePathOf(f, dir)))
            => /\ passTask(f) \in pass'.tasks
               /\ passTask(f) \in Range(rqueue')
     /\ (pass.pc = "wait" /\ pass'.pc = "wait")
          => (pass'.cur = pass.cur /\ pass'.todo = pass.todo)
     /\ (pass.pc = "wait" /\ pass.ctx = "live" /\ pass'.ctx = "cancelled")
          => (pass'.pc = "cancelled" /\ pass'.tasks = pass.tasks /\ rqueue' = rqueue)
     /\ (pass.pc = "cancelled" /\ pass'.pc = "cancelled")
          => (pass'.tasks = pass.tasks /\ Range(rqueue') \subseteq Range(rqueue))]_vars

\* a pass that was cancelled while it was blocked on the full queue, with the
\* task it was sending still outside the queue
C29_Witness ==
  /\ pass.pc = "cancelled"
  /\ pass.cur \in pass.todo
  /\ Len(rqueue) = RQueueCap
  /\ passTask(pass.cur) \notin Range(rqueue)


(***************************************************************************)
(* Lifecycle of the engine and the service (Spec).                         *)
(*                                                                         *)
(* Caller threads invoke Engine.Start, Engine.Stop, Service.Start and      *)
(* Service.Stop.  Goroutines are records [k, pc, ctx, left]: k is the kind *)
(* ("upload", "download", "handler", "sched", "isync"), ctx the context    *)
(* the goroutine was given ("bg": a caller's context that is never         *)
(* cancelled, "cur": the service's current context, "old": a context of an *)
(* earlier Service.Start, cancelled by Service.Stop), left the number of   *)
(* tasks the reconciliation pass it runs has still to enqueue.  A run-time *)
(* panic ends the process: no action is enabled after it.                  *)
(***************************************************************************)
NumUploadWorkers == 1    \* performance.max_concurrent_uploads
NumDownloadWorkers == 1  \* performance.max_concurrent_downloads
QueueCap == 1            \* capacity of uploadQueue in this specification
MaxPassTasks == 1        \* upload tasks one reconciliation pass enqueues

Callers == {"c1", "c2"}
\* the engine is driven through the service (cmd/cloudawsync) or directly
Apis == {"engine", "service"}
Ops == [engine |-> {"Engine.Start", "Engine.Stop"}, service |-> {"Service.Start", "Service.Stop"}]
Modes == {"realtime", "scheduled", "both"}

Idle == [op |-> "none", pc |-> "idle"]
NoRet == [op |-> "none", val |-> "none", early |-> FALSE]
Ret(op, val, early) == [op |-> op, val |-> val, early |-> early]

G(k, pc, ctx, left) == [k |-> k, pc |-> pc, ctx |-> ctx, left |-> left]

\* ctx.Done() is ready for the goroutine
Cancelled(g) == g.ctx = "old" \/ (g.ctx = "cur" /\ sctx = "cancelled")

Alive == panicked = "no"

\* a goroutine moves on / ends / several are spawned
Become(g, h) == (gs (-) SetToBag({g})) (+) SetToBag({h})
Gone(g) == gs (-) SetToBag({g})
Copies(g, n) == IF n > 0 THEN [x \in {g} |-> n] ELSE EmptyBag

\* Service.config.Directories
configDirs == << cfgDir >>

\* Engine.hasRealtimeDirectories
hasRealtimeDirectories ==
  \E i \in 1..Len(directories) : directories[i].mode \in {"realtime", "both"}

\* Engine.hasScheduledDirectories
hasScheduledDirectories ==
  \E i \in 1..Len(directories) : directories[i].mode \in {"scheduled", "both"}

\* Engine.startFileWatcher spawns handleFileEvents when a realtime directory is enabled
watchedDirs ==
  {i \in 1..Len(directories) :
     directories[i].mode \in {"realtime", "both"} /\ directories[i].enabled}

\* a runScheduledSync that reconciles the disabled directories too
Mut_scheduledDirs ==
  {i \in 1..Len(directories) : directories[i].mode \in {"scheduled", "both"}}

\* Engine.runScheduledSync: the directories a tick reconciles
scheduledDirs ==
  {i \in 1..Len(directories) :
     directories[i].mode \in {"scheduled", "both"} /\ directories[i].enabled}

\* no engine has been made, no thread calls
LifeIdle ==
  /\ cfgDir = Nil
  /\ api = "service"
  /\ cpc = <<>>
  /\ cret = Nil
  /\ smutex = "free"
  /\ srunning = FALSE
  /\ sctx = "none"
  /\ running = FALSE
  /\ stopClosed = FALSE
  /\ queuesClosed = FALSE
  /\ uqLen = 0
  /\ directories = <<>>
  /\ wDone = FALSE
  /\ gs = EmptyBag
  /\ wg = 0
  /\ panicked = "no"
  /\ stopReturned = FALSE

\* NewService / NewEngine: nothing runs, every channel is open and empty
LifeInit ==
  /\ cfgDir \in [mode : Modes, enabled : BOOLEAN]
  /\ api \in Apis
  /\ cpc = [c \in Callers |-> Idle]
  /\ cret = NoRet
  /\ smutex = "free"
  /\ srunning = FALSE
  /\ sctx = "none"
  /\ running = FALSE
  /\ stopClosed = FALSE
  /\ queuesClosed = FALSE
  /\ uqLen = 0
  /\ directories = <<>>
  /\ wDone = FALSE
  /\ gs = EmptyBag
  /\ wg = 0
  /\ panicked = "no"
  /\ stopReturned = FALSE

\* a thread calls one of the four operations
Invoke(c) ==
  /\ Alive
  /\ cpc[c] = Idle
  /\ \E op \in Ops[api] :
       cpc' = [cpc EXCEPT ![c] =
                 [op |-> op,
                  pc |-> CASE op = "Engine.Start"  -> "e_start"
                           [] op = "Engine.Stop"   -> "e_stop"
                           [] op = "Service.Start" -> "s_start"
                           [] op = "Service.Stop"  -> "s_stop"]]
  /\ UNCHANGED <<outsideLife, cfgDir, api, cret, smutex, srunning, sctx, running, stopClosed, queuesClosed,
                 uqLen, directories, wDone, gs, wg, panicked, stopReturned>>


\* the process dies of a run-time panic
Panic(reason) ==
  /\ panicked' = reason
  /\ UNCHANGED <<outsideLife, cfgDir, api, cpc, cret, smutex, srunning, sctx, running, stopClosed,
                 queuesClosed, uqLen, directories, wDone, gs, wg, stopReturned>>

\* an Engine.Start that starts whatever the running flag says
Mut_EngineStartCheck(c) ==
  /\ Alive
  /\ cpc[c].pc = "e_start"
  /\ running' = TRUE
  /\ cpc' = [cpc EXCEPT ![c].pc = "e_spawn"]
  /\ UNCHANGED <<outsideLife, cfgDir, api, cret, smutex, srunning, sctx, stopClosed, queuesClosed,
                 uqLen, directories, wDone, gs, wg, panicked, stopReturned>>

\* Engine.Start, the check under the mutex: rejected when already running.
\* Called from Service.Start, the error makes Service.Start return its own.
EngineStartCheck(c) ==
  /\ Alive
  /\ cpc[c].pc = "e_start"
  /\ IF running
     THEN /\ cpc' = [cpc EXCEPT ![c] = Idle]
          /\ IF cpc[c].op = "Service.Start"
             THEN /\ cret' = Ret("Service.Start", "failed to start sync engine", FALSE)
                  /\ smutex' = "free"
             ELSE /\ cret' = Ret("Engine.Start", "already running", TRUE)
                  /\ UNCHANGED smutex
          /\ UNCHANGED running
     ELSE /\ running' = TRUE
          /\ cpc' = [cpc EXCEPT ![c].pc = "e_spawn"]
          /\ UNCHANGED <<cret, smutex>>
  /\ UNCHANGED <<outsideLife, cfgDir, api, srunning, sctx, stopClosed, queuesClosed, uqLen,
                 directories, wDone, gs, wg, panicked, stopReturned>>

\* Engine.Start after the check: the workers, the event handler and the
\* scheduler are spawned and counted in the WaitGroup; Start returns nil.
\* Service.Start then launches the startup reconciliation (one goroutine per
\* enabled directory, outside the WaitGroup), sets running and returns.
EngineStartSpawn(c) ==
  /\ Alive
  /\ cpc[c].pc = "e_spawn"
  /\ LET ctx     == IF cpc[c].op = "Service.Start" THEN "cur" ELSE "bg"
         spawned == Copies(G("upload", "select", ctx, 0), NumUploadWorkers)
                    (+) Copies(G("download", "select", ctx, 0), NumDownloadWorkers)
                    (+) Copies(G("handler", "select", ctx, 0),
                               IF hasRealtimeDirectories /\ watchedDirs # {} THEN 1 ELSE 0)
                    (+) Copies(G("sched", "select", ctx, 0),
                               IF hasScheduledDirectories THEN 1 ELSE 0)
         initial == Copies(G("isync", "list", "unset", 0),
                           IF cpc[c].op = "Service.Start"
                           THEN Cardinality({i \in 1..Len(configDirs) : configDirs[i].enabled})
                           ELSE 0)
     IN  /\ gs' = gs (+) spawned (+) initial
         /\ wg' = wg + BagCardinality(spawned)
  /\ cpc' = [cpc EXCEPT ![c] = Idle]
  /\ cret' = Ret(cpc[c].op, "nil", FALSE)
  /\ IF cpc[c].op = "Service.Start"
     THEN srunning' = TRUE /\ smutex' = "free"
     ELSE UNCHANGED <<srunning, smutex>>
  /\ UNCHANGED <<outsideLife, cfgDir, api, sctx, running, stopClosed, queuesClosed, uqLen,
                 directories, wDone, panicked, stopReturned>>

\* an Engine.Stop that takes the stop decision at its check whatever the flag
Mut_EngineStopCheck(c) ==
  /\ Alive
  /\ cpc[c].pc = "e_stop"
  /\ running' = FALSE
  /\ cpc' = [cpc EXCEPT ![c].pc = "e_close1"]
  /\ UNCHANGED <<outsideLife, cfgDir, api, cret, smutex, srunning, sctx, stopClosed, queuesClosed,
                 uqLen, directories, wDone, gs, wg, panicked, stopReturned>>

\* Engine.Stop, the check under the mutex: returns nil when not running.
\* Called from Service.Stop, Service.Stop then clears its flag and returns.
EngineStopCheck(c) ==
  /\ Alive
  /\ cpc[c].pc = "e_stop"
  /\ IF ~running
     THEN /\ cpc' = [cpc EXCEPT ![c] = Idle]
          /\ IF cpc[c].op = "Service.Stop"
             THEN /\ cret' = Ret("Service.Stop", "nil", FALSE)
                  /\ srunning' = FALSE
                  /\ smutex' = "free"
             ELSE /\ cret' = Ret("Engine.Stop", "nil", TRUE)
                  /\ UNCHANGED <<srunning, smutex>>
          /\ UNCHANGED running
     ELSE /\ running' = FALSE
          /\ cpc' = [cpc EXCEPT ![c].pc = "e_close1"]
          /\ UNCHANGED <<cret, srunning, smutex>>
  /\ UNCHANGED <<outsideLife, cfgDir, api, sctx, stopClosed, queuesClosed, uqLen, directories,
                 wDone, gs, wg, panicked, stopReturned>>

\* Engine.Stop: close(e.stopChan), then e.watcher.Stop(), which closes the
\* watcher's done channel and event channel
EngineStopSignal(c) ==
  /\ Alive
  /\ cpc[c].pc = "e_close1"
  /\ IF stopClosed \/ wDone
     THEN Panic("close of closed channel")
     ELSE /\ stopClosed' = TRUE
          /\ wDone' = TRUE
          /\ cpc' = [cpc EXCEPT ![c].pc = "e_close2"]
          /\ UNCHANGED <<outsideLife, cfgDir, api, cret, smutex, srunning, sctx, running, queuesClosed,
                         uqLen, directories, gs, wg, panicked, stopReturned>>

\* Engine.Stop: close(e.uploadQueue); close(e.downloadQueue)
EngineStopCloseQueues(c) ==
  /\ Alive
  /\ cpc[c].pc = "e_close2"
  /\ IF queuesClosed
     THEN Panic("close of closed channel")
     ELSE /\ queuesClosed' = TRUE
          /\ cpc' = [cpc EXCEPT ![c].pc = "e_wait"]
          /\ UNCHANGED <<outsideLife, cfgDir, api, cret, smutex, srunning, sctx, running, stopClosed,
                         uqLen, directories, wDone, gs, wg, panicked, stopReturned>>

\* Engine.Stop: e.wg.Wait() and return nil.  Service.Stop then clears its
\* flag, releases the mutex and returns.
EngineStopWait(c) ==
  /\ Alive
  /\ cpc[c].pc = "e_wait"
  /\ wg = 0
  /\ stopReturned' = TRUE
  /\ cpc' = [cpc EXCEPT ![c] = Idle]
  /\ cret' = Ret(cpc[c].op, "nil", FALSE)
  /\ IF cpc[c].op = "Service.Stop"
     THEN srunning' = FALSE /\ smutex' = "free"
     ELSE UNCHANGED <<srunning, smutex>>
  /\ UNCHANGED <<outsideLife, cfgDir, api, sctx, running, stopClosed, queuesClosed, uqLen,
                 directories, wDone, gs, wg, panicked>>

\* the goroutines holding the service's context hold a cancelled one once
\* Service.Start replaces s.ctx
Superseded ==
  LET old(g) == IF g.ctx = "cur" THEN [g EXCEPT !.ctx = "old"] ELSE g
      S      == {old(g) : g \in BagToSet(gs)}
  IN  [h \in S |-> (IF BagIn(h, gs) THEN CopiesIn(h, gs) ELSE 0)
                   + (IF h.ctx = "old" /\ BagIn([h EXCEPT !.ctx = "cur"], gs)
                      THEN CopiesIn([h EXCEPT !.ctx = "cur"], gs) ELSE 0)]

\* Service.Start up to the call of engine.Start: takes the mutex, rejects a
\* running service, makes a new context, adds the configured directories
ServiceStartEnter(c) ==
  /\ Alive
  /\ cpc[c].pc = "s_start"
  /\ smutex = "free"
  /\ IF srunning
     THEN /\ cpc' = [cpc EXCEPT ![c] = Idle]
          /\ cret' = Ret("Service.Start", "already running", TRUE)
          /\ UNCHANGED <<smutex, sctx, directories, gs>>
     ELSE /\ smutex' = c
          /\ sctx' = "live"
          /\ gs' = Superseded
          /\ directories' = directories \o configDirs
          /\ cpc' = [cpc EXCEPT ![c].pc = "e_start"]
          /\ UNCHANGED cret
  /\ UNCHANGED <<outsideLife, cfgDir, api, srunning, running, stopClosed, queuesClosed, uqLen,
                 wDone, wg, panicked, stopReturned>>

\* Service.Stop up to the call of engine.Stop: takes the mutex, returns nil
\* when not running, cancels the context
ServiceStopEnter(c) ==
  /\ Alive
  /\ cpc[c].pc = "s_stop"
  /\ smutex = "free"
  /\ IF ~srunning
     THEN /\ cpc' = [cpc EXCEPT ![c] = Idle]
          /\ cret' = Ret("Service.Stop", "nil", TRUE)
          /\ UNCHANGED <<smutex, sctx>>
     ELSE /\ smutex' = c
          /\ sctx' = "cancelled"
          /\ cpc' = [cpc EXCEPT ![c].pc = "e_stop"]
          /\ UNCHANGED cret
  /\ UNCHANGED <<outsideLife, cfgDir, api, srunning, running, stopClosed, queuesClosed, uqLen,
                 directories, wDone, gs, wg, panicked, stopReturned>>


\* the context a goroutine's select polls at this step: the startup
\* reconciliation reads s.ctx when it calls engine.Sync
Bound(g) == IF g.ctx = "unset" THEN [g EXCEPT !.ctx = "cur"] ELSE g

\* uploadWorker: ctx.Done(), stopChan, or the closed and drained queue end it
UploadWorkerExit(g) ==
  /\ Alive
  /\ g.k = "upload" /\ g.pc = "select"
  /\ Cancelled(g) \/ stopClosed \/ (queuesClosed /\ uqLen = 0)
  /\ gs' = Gone(g)
  /\ wg' = wg - 1
  /\ UNCHANGED <<outsideLife, cfgDir, api, cpc, cret, smutex, srunning, sctx, running, stopClosed,
                 queuesClosed, uqLen, directories, wDone, panicked, stopReturned>>

\* uploadWorker receives a task; a closed queue still yields what it buffers
UploadWorkerTake(g) ==
  /\ Alive
  /\ g.k = "upload" /\ g.pc = "select"
  /\ uqLen > 0
  /\ uqLen' = uqLen - 1
  /\ gs' = Become(g, [g EXCEPT !.pc = "proc"])
  /\ UNCHANGED <<outsideLife, cfgDir, api, cpc, cret, smutex, srunning, sctx, running, stopClosed,
                 queuesClosed, directories, wDone, wg, panicked, stopReturned>>

\* processUploadTask returns, whatever the outcome of the upload
UploadWorkerDone(g) ==
  /\ Alive
  /\ g.k = "upload" /\ g.pc = "proc"
  /\ gs' = Become(g, [g EXCEPT !.pc = "select"])
  /\ UNCHANGED <<outsideLife, cfgDir, api, cpc, cret, smutex, srunning, sctx, running, stopClosed,
                 queuesClosed, uqLen, directories, wDone, wg, panicked, stopReturned>>

\* downloadWorker: nothing is ever sent on its queue, it only ends
DownloadWorkerExit(g) ==
  /\ Alive
  /\ g.k = "download" /\ g.pc = "select"
  /\ Cancelled(g) \/ stopClosed \/ queuesClosed
  /\ gs' = Gone(g)
  /\ wg' = wg - 1
  /\ UNCHANGED <<outsideLife, cfgDir, api, cpc, cret, smutex, srunning, sctx, running, stopClosed,
                 queuesClosed, uqLen, directories, wDone, panicked, stopReturned>>

\* handleFileEvents: ctx.Done(), stopChan or the closed event channel end it
HandlerExit(g) ==
  /\ Alive
  /\ g.k = "handler" /\ g.pc = "select"
  /\ Cancelled(g) \/ stopClosed \/ wDone
  /\ gs' = Gone(g)
  /\ wg' = wg - 1
  /\ UNCHANGED <<outsideLife, cfgDir, api, cpc, cret, smutex, srunning, sctx, running, stopClosed,
                 queuesClosed, uqLen, directories, wDone, panicked, stopReturned>>

\* handleFileEvents receives an event (the channel buffers events past its close)
HandlerReceive(g) ==
  /\ Alive
  /\ g.k = "handler" /\ g.pc = "select"
  /\ gs' = Become(g, [g EXCEPT !.pc = "event"])
  /\ UNCHANGED <<outsideLife, cfgDir, api, cpc, cret, smutex, srunning, sctx, running, stopClosed,
                 queuesClosed, uqLen, directories, wDone, wg, panicked, stopReturned>>

\* processFileEvent enqueues the upload task of the event
HandlerSend(g) ==
  /\ Alive
  /\ g.k = "handler" /\ g.pc = "event"
  /\ ~queuesClosed
  /\ uqLen < QueueCap
  /\ uqLen' = uqLen + 1
  /\ gs' = Become(g, [g EXCEPT !.pc = "select"])
  /\ UNCHANGED <<outsideLife, cfgDir, api, cpc, cret, smutex, srunning, sctx, running, stopClosed,
                 queuesClosed, directories, wDone, wg, panicked, stopReturned>>

\* processFileEvent sends on the closed upload queue
HandlerSendClosed(g) ==
  /\ Alive
  /\ g.k = "handler" /\ g.pc = "event"
  /\ queuesClosed
  /\ Panic("send on closed channel")

\* processFileEvent makes no task: a directory, no matching root, a filtered
\* or vanished file, a delete, a full queue, or ctx.Done() chosen by the select
HandlerNoTask(g) ==
  /\ Alive
  /\ g.k = "handler" /\ g.pc = "event"
  /\ gs' = Become(g, [g EXCEPT !.pc = "select"])
  /\ UNCHANGED <<outsideLife, cfgDir, api, cpc, cret, smutex, srunning, sctx, running, stopClosed,
                 queuesClosed, uqLen, directories, wDone, wg, panicked, stopReturned>>

\* scheduledSyncWorker: ctx.Done() or stopChan end it
SchedExit(g) ==
  /\ Alive
  /\ g.k = "sched" /\ g.pc = "select"
  /\ Cancelled(g) \/ stopClosed
  /\ gs' = Gone(g)
  /\ wg' = wg - 1
  /\ UNCHANGED <<outsideLife, cfgDir, api, cpc, cret, smutex, srunning, sctx, running, stopClosed,
                 queuesClosed, uqLen, directories, wDone, panicked, stopReturned>>

\* the ticker fires: runScheduledSync starts a pass over a scheduled directory
SchedTick(g) ==
  /\ Alive
  /\ g.k = "sched" /\ g.pc = "select"
  /\ scheduledDirs # {}
  /\ gs' = Become(g, [g EXCEPT !.pc = "list"])
  /\ UNCHANGED <<outsideLife, cfgDir, api, cpc, cret, smutex, srunning, sctx, running, stopClosed,
                 queuesClosed, uqLen, directories, wDone, wg, panicked, stopReturned>>

\* the pass of goroutine g is over: the startup reconciliation ends, the
\* scheduler goes back to its select
PassOver(g, h) ==
  IF g.k = "isync" THEN Gone(g) ELSE Become(g, [h EXCEPT !.pc = "select", !.left = 0])

\* syncDirectory up to its loop: walking the tree or listing the bucket fails
\* (the listing does under a cancelled context), or n files need an upload
PassList(g) ==
  /\ Alive
  /\ g.k \in {"isync", "sched"} /\ g.pc = "list"
  /\ \/ gs' = PassOver(g, Bound(g))
     \/ /\ ~Cancelled(Bound(g))
        /\ \E n \in 1..MaxPassTasks : gs' = Become(g, [Bound(g) EXCEPT !.pc = "send", !.left = n])
  /\ UNCHANGED <<outsideLife, cfgDir, api, cpc, cret, smutex, srunning, sctx, running, stopClosed,
                 queuesClosed, uqLen, directories, wDone, wg, panicked, stopReturned>>

\* syncDirectory's blocking send of one task
PassSend(g) ==
  /\ Alive
  /\ g.k \in {"isync", "sched"} /\ g.pc = "send"
  /\ ~queuesClosed
  /\ uqLen < QueueCap
  /\ uqLen' = uqLen + 1
  /\ gs' = IF g.left = 1 THEN PassOver(g, g) ELSE Become(g, [g EXCEPT !.left = g.left - 1])
  /\ UNCHANGED <<outsideLife, cfgDir, api, cpc, cret, smutex, srunning, sctx, running, stopClosed,
                 queuesClosed, directories, wDone, wg, panicked, stopReturned>>

\* syncDirectory's send finds the upload queue closed
PassSendClosed(g) ==
  /\ Alive
  /\ g.k \in {"isync", "sched"} /\ g.pc = "send"
  /\ queuesClosed
  /\ Panic("send on closed channel")

\* syncDirectory's select takes ctx.Done() and returns ctx.Err()
PassCancelled(g) ==
  /\ Alive
  /\ g.k \in {"isync", "sched"} /\ g.pc = "send"
  /\ Cancelled(g)
  /\ gs' = PassOver(g, g)
  /\ UNCHANGED <<outsideLife, cfgDir, api, cpc, cret, smutex, srunning, sctx, running, stopClosed,
                 queuesClosed, uqLen, directories, wDone, wg, panicked, stopReturned>>

\* every step of the lifecycle specification
Next ==
  \/ \E c \in Callers : Invoke(c)
  \/ \E c \in Callers : EngineStartCheck(c)
  \/ \E c \in Callers : EngineStartSpawn(c)
  \/ \E c \in Callers : EngineStopCheck(c)
  \/ \E c \in Callers : EngineStopSignal(c)
  \/ \E c \in Callers : EngineStopCloseQueues(c)
  \/ \E c \in Callers : EngineStopWait(c)
  \/ \E c \in Callers : ServiceStartEnter(c)
  \/ \E c \in Callers : ServiceStopEnter(c)
  \/ \E g \in BagToSet(gs) : UploadWorkerExit(g)
  \/ \E g \in BagToSet(gs) : UploadWorkerTake(g)
  \/ \E g \in BagToSet(gs) : UploadWorkerDone(g)
  \/ \E g \in BagToSet(gs) : DownloadWorkerExit(g)
  \/ \E g \in BagToSet(gs) : HandlerExit(g)
  \/ \E g \in BagToSet(gs) : HandlerReceive(g)
  \/ \E g \in BagToSet(gs) : HandlerSend(g)
  \/ \E g \in BagToSet(gs) : HandlerSendClosed(g)
  \/ \E g \in BagToSet(gs) : HandlerNoTask(g)
  \/ \E g \in BagToSet(gs) : SchedExit(g)
  \/ \E g \in BagToSet(gs) : SchedTick(g)
  \/ \E g \in BagToSet(gs) : PassList(g)
  \/ \E g \in BagToSet(gs) : PassSend(g)
  \/ \E g \in BagToSet(gs) : PassSendClosed(g)
  \/ \E g \in BagToSet(gs) : PassCancelled(g)

\* the steps of a call of Stop
StopStep(c) ==
  \/ ServiceStopEnter(c)
  \/ EngineStopCheck(c)
  \/ EngineStopSignal(c)
  \/ EngineStopCloseQueues(c)
  \/ EngineStopWait(c)

\* a goroutine returns on ctx.Done(), the stop channel or a closed channel
GoroutineExit(g) ==
  \/ UploadWorkerExit(g)
  \/ DownloadWorkerExit(g)
  \/ HandlerExit(g)
  \/ SchedExit(g)
  \/ PassCancelled(g)

\* the steps of a goroutine that is not at its select
GoroutineStep(g) ==
  \/ UploadWorkerDone(g)
  \/ HandlerSend(g)
  \/ HandlerSendClosed(g)
  \/ HandlerNoTask(g)
  \/ PassList(g)
  \/ PassSend(g)
  \/ PassSendClosed(g)

\* Engine.Start after the check when e.watcher.Watch returns an error: the
\* upload and download workers are spawned and counted already, no handler
\* and no scheduler is; startFileWatcher's error is returned as it is, and
\* Service.Start wraps it, releases its mutex and returns without setting
\* s.running and without launching the startup reconciliation
EngineStartWatchFail(c) ==
  /\ Alive
  /\ cpc[c].pc = "e_spawn"
  /\ hasRealtimeDirectories /\ watchedDirs # {}
  /\ LET ctx     == IF cpc[c].op = "Service.Start" THEN "cur" ELSE "bg"
         spawned == Copies(G("upload", "select", ctx, 0), NumUploadWorkers)
                    (+) Copies(G("download", "select", ctx, 0), NumDownloadWorkers)
     IN  /\ gs' = gs (+) spawned
         /\ wg' = wg + BagCardinality(spawned)
  /\ cpc' = [cpc EXCEPT ![c] = Idle]
  /\ cret' = Ret(cpc[c].op, IF cpc[c].op = "Service.Start"
                            THEN "failed to start sync engine"
                            ELSE "watch error", FALSE)
  /\ IF cpc[c].op = "Service.Start" THEN smutex' = "free" ELSE UNCHANGED smutex
  /\ UNCHANGED <<outsideLife, cfgDir, api, srunning, sctx, running, stopClosed, queuesClosed,
                 uqLen, directories, wDone, panicked, stopReturned>>

\* a call of Start has returned the watcher's error
WatchFailed == cret.val \in {"watch error", "failed to start sync engine"}

\* every step of the lifecycle with a watcher whose Watch can fail, followed
\* up to the return of the failed Start
NextStart ==
  \/ ~WatchFailed /\ Next
  \/ \E c \in Callers : ~WatchFailed /\ EngineStartWatchFail(c)

(***************************************************************************)
(* Claims about the lifecycle                                              *)
(***************************************************************************)
\* a call of Engine.Stop, made directly or by Service.Stop, is in progress
Stopping(c) == cpc[c].pc \in {"e_stop", "e_close1", "e_close2", "e_wait"}
                 /\ cpc[c].op \in {"Engine.Stop", "Service.Stop"}

\* C30: Stop terminates.  Once Engine.Stop is called it eventually returns,
\* in every interleaving of the goroutines the engine has started.
C30_StopTerminates ==
  \A c \in Callers : Stopping(c) ~> (cpc[c] = Idle)

\* the goroutines Engine.Start spawns
EngineGoroutines == {g \in BagToSet(gs) : g.k \in {"upload", "download", "handler", "sched"}}

\* what Engine.Start and Engine.Stop read and write
engineState == <<running, stopClosed, queuesClosed, uqLen, directories, wDone, gs, wg, panicked>>

\* what Service.Start and Service.Stop read and write besides the engine
serviceState == <<smutex, srunning, sctx>>

\* C1: once an Engine.Stop that stopped the engine has returned, no upload
\* worker, download worker, event handler or scheduler of the engine is
\* alive, no task is taken from the upload queue and none is put in it
C1_NothingRunsAfterStop ==
  [][stopReturned => (EngineGoroutines' = {} /\ uqLen' = uqLen)]_vars

\* C2: a Stop call that finds the engine (the service) not running, because
\* an earlier Stop has stopped it or is stopping it, returns nil at once,
\* closes no channel and changes no state of the engine or the service
C2_StopIsIdempotent ==
  [][\A c \in Callers :
       /\ (cpc[c] = [op |-> "Engine.Stop", pc |-> "e_stop"] /\ ~running /\ cpc'[c] # cpc[c])
            => (cpc'[c] = Idle /\ cret' = Ret("Engine.Stop", "nil", TRUE)
                /\ UNCHANGED <<engineState, serviceState>>)
       /\ (cpc[c].pc = "s_stop" /\ ~srunning /\ cpc'[c] # cpc[c])
            => (cpc'[c] = Idle /\ cret' = Ret("Service.Stop", "nil", TRUE)
                /\ UNCHANGED <<engineState, serviceState>>)]_vars

\* a second Engine.Stop has returned nil while the first one, which closed
\* the channels, is still waiting for the workers
C2_Witness ==
  /\ cret = Ret("Engine.Stop", "nil", TRUE)
  /\ \E c \in Callers : cpc[c].pc = "e_wait"
  /\ gs # EmptyBag

\* C3: a Start call that finds the engine (the service) running returns an
\* error and spawns nothing: flags, directory list, channels, goroutines
\* and WaitGroup are unchanged
C3_StartWhileRunningRejected ==
  [][\A c \in Callers :
       /\ (cpc[c].pc = "e_start" /\ running /\ cpc'[c] # cpc[c])
            => (cpc'[c] = Idle /\ cret'.val # "nil" /\ UNCHANGED engineState)
       /\ (cpc[c].pc = "s_start" /\ srunning /\ cpc'[c] # cpc[c])
            => (cpc'[c] = Idle /\ cret' = Ret("Service.Start", "already running", TRUE)
                /\ UNCHANGED <<engineState, serviceState>>)]_vars

\* Engine.Start has been rejected on a running engine with live workers
C3_Witness ==
  /\ cret = Ret("Engine.Start", "already running", TRUE)
  /\ running
  /\ wg > 0

\* C35: no goroutine sends on the upload queue after Stop has closed it.
\* Whatever the interleaving of Stop with a startup reconciliation, a
\* scheduled reconciliation or an event dispatch in progress, the process
\* never ends in the panic of a send on the closed upload queue.
C35_NoSendOnClosedQueue == panicked # "send on closed channel"

\* the call of Start that returns in this step returns the watcher's error
StartFailed ==
  /\ cret' # cret
  /\ \/ cret' = Ret("Engine.Start", "watch error", FALSE)
     \/ /\ cret' = Ret("Service.Start", "failed to start sync engine", FALSE)
        /\ \E c \in Callers : cpc[c].pc = "e_spawn"

\* C39: a failed start leaves nothing running.  When Engine.Start returns
\* the error of the file watcher, called directly or by Service.Start, the
\* engine is not marked running and none of its worker goroutines is alive.
C39_FailedStartLeavesNothingRunning ==
  [][StartFailed =>
       /\ ~running'
       /\ \A g \in BagToSet(gs') : g.k \notin {"upload", "download", "handler", "sched"}]_vars

\* C4: an engine whose stop signal is closed is never running again, and no
\* Stop fails by closing a channel twice
C4_LifecycleOnlyForward ==
  /\ stopClosed => ~running
  /\ panicked # "close of closed channel"

MaxEvents == 2        \* FileEvents the watcher makes in one behaviour
EventChanCap == 1     \* capacity of FSWatcher.eventChan
BatchedCap == 1       \* capacity of the batcher's output channel
UploadQueueCap == 1   \* capacity of Engine.uploadQueue

FileA == <<"/", "r", "/", "a">>
FileL == <<"/", "r", "/", "a", ".", "l">>
FileTmp == <<"/", "r", "/", "a", ".", "t", "m", "p">>
FileSwp == <<"/", "r", "/", "a", ".", "s", "w", "p">>
WatchedFiles == {FileA, FileL, FileH, FileT, FileTmp, FileSwp}

\* the files that get created, removed and renamed
Volatile == {FileA, FileL}

\* fsnotify.Op of a notification: a set of flags
Notifications == {{"Create"}, {"Write"}, {"Remove"}, {"Rename"}, {"Chmod"}, {"Write", "Chmod"}}

\* Service.createFileWatcher: security.denied_extensions, then ".tmp", ".swp", "~"
TempFilters == << <<".", "t", "m", "p">>, <<".", "s", "w", "p">>, <<"~">> >>
FilterSets == {TempFilters, << <<"*", ".", "l">> >> \o TempFilters}

\* Engine.directories in the pipeline specification
WatchDirs ==
  << [LocalPath |-> Root, RemotePath |-> <<"b", "/">>, SyncMode |-> "realtime",
      Recursive |-> TRUE, Enabled |-> TRUE, Filters |-> <<>>] >>

\* the watcher's filter without its test of the suffix "~"
Mut_shouldSkipFile(path) ==
  LET filename == Base(path)
  IN  \/ HasPrefix(filename, <<".">>)
      \/ HasSuffix(filename, <<".", "t", "m", "p">>)
      \/ HasSuffix(filename, <<".", "s", "w", "p">>)
      \/ \E i \in 1..Len(filters) : Match(filters[i], filename)

\* FSWatcher.shouldSkipFile
shouldSkipFile(path) ==
  LET filename == Base(path)
  IN  \/ HasPrefix(filename, <<".">>)
      \/ HasSuffix(filename, <<".", "t", "m", "p">>)
      \/ HasSuffix(filename, <<".", "s", "w", "p">>)
      \/ HasSuffix(filename, <<"~">>)
      \/ \E i \in 1..Len(filters) : Match(filters[i], filename)

\* FSWatcher.handleEvent: the switch over event.Op
Operation(op) ==
  IF "Create" \in op THEN "create"
  ELSE IF "Write" \in op THEN "modify"
  ELSE IF "Remove" \in op THEN "delete"
  ELSE IF "Rename" \in op THEN "move"
  ELSE "none"

Entry(ev, fate) ==
  [Path |-> ev.Path, Operation |-> ev.Operation, win |-> 0, fate |-> fate, emits |-> 0,
   tasks |-> 0]

IdleBatcher == [pc |-> "select", todo |-> {}]

\* no watcher has been made
WatchIdle ==
  /\ filters = <<>>
  /\ exists = {}
  /\ clock = 0
  /\ eventChan = <<>>
  /\ done = FALSE
  /\ wctx = "live"
  /\ batcher = Nil
  /\ eventMap = <<>>
  /\ batchedEvents = <<>>
  /\ outClosed = FALSE
  /\ uploadQueue = <<>>
  /\ wpanic = "no"
  /\ wstats = Nil
  /\ window = 1
  /\ evlog = <<>>
  /\ engineDirs = <<>>

\* NewFSWatcher, SetFilters, Watch: everything is empty, both goroutines select
WatchInit ==
  /\ filters \in FilterSets
  /\ exists = WatchedFiles
  /\ clock = 0
  /\ eventChan = <<>>
  /\ done = FALSE
  /\ wctx = "live"
  /\ batcher = IdleBatcher
  /\ eventMap = <<>>
  /\ batchedEvents = <<>>
  /\ outClosed = FALSE
  /\ uploadQueue = <<>>
  /\ wpanic = "no"
  /\ wstats = [FilesUploaded |-> 0, SyncErrors |-> 0]
  /\ window = 1
  /\ evlog = <<>>
  /\ engineDirs = WatchDirs

\* a change of file p is notified with flags op: processEvents receives it
\* and handleEvent filters it, maps it, and sends it without blocking
handleEvent(p, op) ==
  /\ wpanic = "no"
  /\ ~done
  /\ clock < MaxEvents
  /\ IF "Create" \in op
     THEN p \in Volatile /\ p \notin exists /\ exists' = exists \cup {p}
     ELSE IF "Remove" \in op \/ "Rename" \in op
          THEN p \in Volatile /\ p \in exists /\ exists' = exists \ {p}
          ELSE p \in exists /\ UNCHANGED exists
  /\ IF shouldSkipFile(p) \/ Operation(op) = "none"
     THEN UNCHANGED <<clock, eventChan, evlog>>
     ELSE LET fileEvent == [Path |-> p, Operation |-> Operation(op), IsDir |-> FALSE,
                            Timestamp |-> clock + 1]
          IN  /\ clock' = clock + 1
              /\ IF Len(eventChan) < EventChanCap
                 THEN /\ eventChan' = Append(eventChan, fileEvent)
                      /\ evlog' = Append(evlog, Entry(fileEvent, "raw"))
                 ELSE /\ UNCHANGED eventChan
                      /\ evlog' = Append(evlog, Entry(fileEvent, "rawdrop"))
  /\ UNCHANGED <<outsideWatch, wstats, filters, done, wctx, batcher, eventMap, batchedEvents,
                 outClosed, uploadQueue, wpanic, window>>

\* FSWatcher.Stop ran while handleEvent was at its send
handleEventClosed ==
  /\ wpanic = "no"
  /\ done
  /\ clock < MaxEvents
  /\ wpanic' = "send on closed channel"
  /\ UNCHANGED <<outsideWatch, wstats, filters, exists, clock, eventChan, done, wctx, batcher,
                 eventMap, batchedEvents, outClosed, uploadQueue, window, evlog>>

\* FSWatcher.Stop: close(w.done), close(w.eventChan)
WatcherStop ==
  /\ wpanic = "no"
  /\ IF done
     THEN wpanic' = "close of closed channel" /\ UNCHANGED done
     ELSE done' = TRUE /\ UNCHANGED wpanic
  /\ UNCHANGED <<outsideWatch, wstats, filters, exists, clock, eventChan, wctx, batcher,
                 eventMap, batchedEvents, outClosed, uploadQueue, window, evlog>>

\* the context of Watch and of the engine is cancelled
Cancel ==
  /\ wpanic = "no"
  /\ wctx = "live"
  /\ wctx' = "cancelled"
  /\ UNCHANGED <<outsideWatch, wstats, filters, exists, clock, eventChan, done, batcher,
                 eventMap, batchedEvents, outClosed, uploadQueue, wpanic, window, evlog>>

\* the history after the event numbered t met its fate
Fate(t, fate) == [evlog EXCEPT ![t].fate = fate]

\* a batcher that keeps the first event of a path instead of the latest
Mut_BatchReceive ==
  /\ wpanic = "no"
  /\ batcher.pc = "select"
  /\ eventChan # <<>>
  /\ LET event == Head(eventChan)
     IN  /\ eventMap' = IF event.Path \in DOMAIN eventMap
                        THEN eventMap
                        ELSE [q \in DOMAIN eventMap \cup {event.Path} |->
                                IF q = event.Path THEN event ELSE eventMap[q]]
         /\ evlog' = [evlog EXCEPT ![event.Timestamp].win = window,
                                   ![event.Timestamp].fate =
                                      IF event.Path \in DOMAIN eventMap
                                      THEN "superseded" ELSE "pending"]
  /\ eventChan' = Tail(eventChan)
  /\ UNCHANGED <<outsideWatch, wstats, filters, exists, clock, done, wctx, batcher,
                 batchedEvents, outClosed, uploadQueue, wpanic, window>>

\* batchEvents receives an event: eventMap[event.Path] = event
BatchReceive ==
  /\ wpanic = "no"
  /\ batcher.pc = "select"
  /\ eventChan # <<>>
  /\ LET event == Head(eventChan)
         old   == IF event.Path \in DOMAIN eventMap
                  THEN eventMap[event.Path].Timestamp ELSE 0
     IN  /\ eventMap' = [q \in DOMAIN eventMap \cup {event.Path} |->
                           IF q = event.Path THEN event ELSE eventMap[q]]
         /\ evlog' = [t \in DOMAIN evlog |->
                        IF t = event.Timestamp
                        THEN [evlog[t] EXCEPT !.win = window, !.fate = "pending"]
                        ELSE IF t = old THEN [evlog[t] EXCEPT !.fate = "superseded"]
                        ELSE evlog[t]]
  /\ eventChan' = Tail(eventChan)
  /\ UNCHANGED <<outsideWatch, wstats, filters, exists, clock, done, wctx, batcher,
                 batchedEvents, outClosed, uploadQueue, wpanic, window>>

\* batchEvents finds its input closed and drained: it flushes what remains
BatchClosed ==
  /\ wpanic = "no"
  /\ batcher.pc = "select"
  /\ eventChan = <<>>
  /\ done
  /\ batcher' = [pc |-> "lastflush", todo |-> DOMAIN eventMap]
  /\ UNCHANGED <<outsideWatch, wstats, filters, exists, clock, eventChan, done, wctx, eventMap,
                 batchedEvents, outClosed, uploadQueue, wpanic, window, evlog>>

\* the ticker fires: flushEvents starts (a tick on an empty map changes nothing)
BatchTick ==
  /\ wpanic = "no"
  /\ batcher.pc = "select"
  /\ DOMAIN eventMap # {}
  /\ batcher' = [pc |-> "flush", todo |-> DOMAIN eventMap]
  /\ UNCHANGED <<outsideWatch, wstats, filters, exists, clock, eventChan, done, wctx, eventMap,
                 batchedEvents, outClosed, uploadQueue, wpanic, window, evlog>>

\* a flush whose send waits for room in the channel
Mut_FlushSend(p) ==
  /\ wpanic = "no"
  /\ batcher.pc \in {"flush", "lastflush"}
  /\ p \in batcher.todo
  /\ Len(batchedEvents) < BatchedCap
  /\ LET event == eventMap[p]
     IN  /\ batchedEvents' = Append(batchedEvents, event)
         /\ evlog' = [evlog EXCEPT ![event.Timestamp].fate = "emitted",
                                   ![event.Timestamp].emits = @ + 1]
  /\ batcher' = [batcher EXCEPT !.todo = @ \ {p}]
  /\ UNCHANGED <<outsideWatch, wstats, filters, exists, clock, eventChan, done, wctx, eventMap,
                 outClosed, uploadQueue, wpanic, window>>

\* flushEvents: one iteration over the map, a send that does not block
FlushSend(p) ==
  /\ wpanic = "no"
  /\ batcher.pc \in {"flush", "lastflush"}
  /\ p \in batcher.todo
  /\ LET event == eventMap[p]
     IN  IF Len(batchedEvents) < BatchedCap
         THEN /\ batchedEvents' = Append(batchedEvents, event)
              /\ evlog' = [evlog EXCEPT ![event.Timestamp].fate = "emitted",
                                        ![event.Timestamp].emits = @ + 1]
         ELSE /\ UNCHANGED batchedEvents
              /\ evlog' = Fate(event.Timestamp, "flushdrop")
  /\ batcher' = [batcher EXCEPT !.todo = @ \ {p}]
  /\ UNCHANGED <<outsideWatch, wstats, filters, exists, clock, eventChan, done, wctx, eventMap,
                 outClosed, uploadQueue, wpanic, window>>

\* a batcher that keeps its map after the flush of a tick
Mut_FlushEnd ==
  /\ wpanic = "no"
  /\ batcher.pc \in {"flush", "lastflush"}
  /\ batcher.todo = {}
  /\ IF batcher.pc = "flush"
     THEN /\ batcher' = IdleBatcher
          /\ window' = window + 1
          /\ UNCHANGED <<eventMap, outClosed>>
     ELSE /\ batcher' = [pc |-> "done", todo |-> {}]
          /\ outClosed' = TRUE
          /\ UNCHANGED <<eventMap, window>>
  /\ UNCHANGED <<outsideWatch, wstats, filters, exists, clock, eventChan, done, wctx,
                 batchedEvents, uploadQueue, wpanic, evlog>>

\* flushEvents returns: after a tick the map is replaced by an empty one and
\* the next window begins; after the close batchEvents returns and its
\* deferred close(output) runs
FlushEnd ==
  /\ wpanic = "no"
  /\ batcher.pc \in {"flush", "lastflush"}
  /\ batcher.todo = {}
  /\ IF batcher.pc = "flush"
     THEN /\ eventMap' = <<>>
          /\ batcher' = IdleBatcher
          /\ window' = window + 1
          /\ UNCHANGED outClosed
     ELSE /\ batcher' = [pc |-> "done", todo |-> {}]
          /\ outClosed' = TRUE
          /\ UNCHANGED <<eventMap, window>>
  /\ UNCHANGED <<outsideWatch, wstats, filters, exists, clock, eventChan, done, wctx,
                 batchedEvents, uploadQueue, wpanic, evlog>>

\* batchEvents takes ctx.Done(): it returns without a flush
BatchCancelled ==
  /\ wpanic = "no"
  /\ batcher.pc = "select"
  /\ wctx = "cancelled"
  /\ batcher' = [pc |-> "done", todo |-> {}]
  /\ outClosed' = TRUE
  /\ UNCHANGED <<outsideWatch, wstats, filters, exists, clock, eventChan, done, wctx, eventMap,
                 batchedEvents, uploadQueue, wpanic, window, evlog>>

\* Engine.processFileEvent: the first enabled realtime directory whose
\* LocalPath is a string prefix of the path (0: none)
matchedDir(path) ==
  LET c == {i \in 1..Len(engineDirs) :
              /\ HasPrefix(path, engineDirs[i].LocalPath)
              /\ engineDirs[i].Enabled
              /\ engineDirs[i].SyncMode \in {"realtime", "both"}}
  IN  IF c = {} THEN 0 ELSE CHOOSE i \in c : \A j \in c : i <= j

\* the syncTask processFileEvent makes of an event
eventTask(event) ==
  LET d == engineDirs[matchedDir(event.Path)]
  IN  [localPath |-> event.Path,
       remotePath |-> Join(d.RemotePath, getRelativePath(event.Path, d.LocalPath)),
       operation |-> "upload"]

\* processFileEvent gets as far as its select for this event
reachesSelect(event) ==
  /\ ~event.IsDir
  /\ matchedDir(event.Path) # 0
  /\ shouldSyncFile(event.Path, engineDirs[matchedDir(event.Path)].Filters)
  /\ event.Operation \in {"create", "modify"}
  /\ event.Path \in exists

\* a processFileEvent whose "delete" case queues a deletion of the remote key
Mut_Dispatch ==
  /\ wpanic = "no"
  /\ batchedEvents # <<>>
  /\ batchedEvents' = Tail(batchedEvents)
  /\ LET event == Head(batchedEvents)
         t     == event.Timestamp
     IN  IF event.Operation = "delete" /\ Len(uploadQueue) < UploadQueueCap
         THEN /\ uploadQueue' = Append(uploadQueue, [eventTask(event) EXCEPT !.operation = "delete"])
              /\ evlog' = [evlog EXCEPT ![t].fate = "enqueued", ![t].tasks = @ + 1]
         ELSE /\ evlog' = Fate(t, "skipped")
              /\ UNCHANGED uploadQueue
  /\ UNCHANGED <<outsideWatch, wstats, filters, exists, clock, eventChan, done, wctx, batcher,
                 eventMap, outClosed, wpanic, window>>

\* handleFileEvents receives a batched event and processFileEvent handles it
Dispatch ==
  /\ wpanic = "no"
  /\ batchedEvents # <<>>
  /\ batchedEvents' = Tail(batchedEvents)
  /\ LET event == Head(batchedEvents)
         t     == event.Timestamp
     IN  \/ /\ ~reachesSelect(event)
            /\ evlog' = Fate(t, IF event.Path \in exists \/ event.Operation \notin {"create", "modify"}
                                THEN "skipped" ELSE "nofile")
            /\ UNCHANGED uploadQueue
         \/ /\ reachesSelect(event)
            /\ Len(uploadQueue) < UploadQueueCap
            /\ uploadQueue' = Append(uploadQueue, eventTask(event))
            /\ evlog' = [evlog EXCEPT ![t].fate = "enqueued", ![t].tasks = @ + 1]
         \/ /\ reachesSelect(event)
            /\ wctx = "cancelled"
            /\ evlog' = Fate(t, "cancelled")
            /\ UNCHANGED uploadQueue
         \/ /\ reachesSelect(event)
            /\ Len(uploadQueue) >= UploadQueueCap
            /\ wctx = "live"
            /\ evlog' = Fate(t, "queuedrop")
            /\ UNCHANGED uploadQueue
  /\ UNCHANGED <<outsideWatch, wstats, filters, exists, clock, eventChan, done, wctx, batcher,
                 eventMap, outClosed, wpanic, window>>

\* uploadWorker receives a task and processUploadTask counts its outcome
UploadTake ==
  /\ wpanic = "no"
  /\ uploadQueue # <<>>
  /\ uploadQueue' = Tail(uploadQueue)
  /\ \E ok \in BOOLEAN :
       wstats' = IF ok THEN [wstats EXCEPT !.FilesUploaded = @ + 1]
                 ELSE [wstats EXCEPT !.SyncErrors = @ + 1]
  /\ UNCHANGED <<outsideWatch, filters, exists, clock, eventChan, done, wctx, batcher,
                 eventMap, batchedEvents, outClosed, wpanic, window, evlog>>

\* every step of the pipeline specification
NextWatch ==
  \/ \E p \in WatchedFiles, op \in Notifications : handleEvent(p, op)
  \/ handleEventClosed
  \/ WatcherStop
  \/ Cancel
  \/ BatchReceive
  \/ BatchClosed
  \/ BatchTick
  \/ \E p \in WatchedFiles : FlushSend(p)
  \/ FlushEnd
  \/ BatchCancelled
  \/ Dispatch
  \/ UploadTake

(***************************************************************************)
(* Claims about the event pipeline                                         *)
(***************************************************************************)
\* the events of path p that reached the batcher in window w
arrivals(p, w) == {t \in DOMAIN evlog : evlog[t].Path = p /\ evlog[t].win = w}

\* the events that were flushed
Flushed == {t \in DOMAIN evlog : evlog[t].emits > 0 \/ evlog[t].fate = "flushdrop"}

\* C8: every FileEvent the watcher made, and so every one on its output
\* channel and on the batcher's, has a basename that is not dot-prefixed,
\* does not end in .tmp, .swp or ~ and matches no configured pattern
C8_NoFilteredEventEscapes ==
  \A path \in {e.Path : e \in Range(eventChan) \cup Range(batchedEvents)}
              \cup {evlog[t].Path : t \in DOMAIN evlog} :
    LET name == Base(path)
    IN  /\ Head(name) # "."
        /\ SubSeq(name, Len(name), Len(name)) # <<"~">>
        /\ Len(name) < 4 \/ SubSeq(name, Len(name) - 3, Len(name)) \notin
                             {<<".", "t", "m", "p">>, <<".", "s", "w", "p">>}
        /\ \A i \in 1..Len(filters) : ~Match(filters[i], name)

\* with a configured glob pattern, an event is on the watcher's channel and
\* another one went through the batcher
C8_Witness ==
  /\ Len(filters) > Len(TempFilters)
  /\ eventChan # <<>>
  /\ batchedEvents # <<>>

\* C9 as stated: when only modifications of a file reached the batcher in a
\* window and the last of them has been flushed and dispatched with the
\* file in place and the context live, exactly one upload task was enqueued
C9_ExactlyOneTaskPerWindow ==
  \A p \in WatchedFiles, w \in 1..window :
    LET a == arrivals(p, w)
    IN  (/\ a # {}
         /\ \A t \in a : evlog[t].Operation = "modify"
         /\ \E t \in a : evlog[t].fate \in {"flushdrop", "enqueued", "queuedrop"})
        => \E t \in a : evlog[t].tasks = 1 /\ \A u \in a \ {t} : evlog[u].tasks = 0

\* C9, amended: the events of a path in one window make at most one upload
\* task; the flush puts the path's event on the batched channel whenever
\* the channel is not full; and the dispatch of a modify event of a file
\* that exists enqueues its task whenever the upload queue is not full and
\* the context is live
C9_OneTaskUnlessSaturated ==
  [][/\ \A p \in WatchedFiles, w \in 1..window' :
          \A t, u \in {x \in DOMAIN evlog' : evlog'[x].Path = p /\ evlog'[x].win = w} :
             /\ evlog'[t].tasks <= 1
             /\ (evlog'[t].tasks = 1 /\ evlog'[u].tasks = 1) => t = u
     /\ \A p \in batcher.todo :
          (p \notin batcher'.todo /\ Len(batchedEvents) < BatchedCap)
            => batchedEvents' = Append(batchedEvents, eventMap[p])
     /\ (/\ batchedEvents # <<>>
         /\ batchedEvents' = Tail(batchedEvents)
         /\ Head(batchedEvents).Operation = "modify"
         /\ Head(batchedEvents).Path \in exists
         /\ Len(uploadQueue) < UploadQueueCap
         /\ wctx = "live")
        => /\ Len(uploadQueue') = Len(uploadQueue) + 1
           /\ uploadQueue'[Len(uploadQueue')].localPath = Head(batchedEvents).Path
           /\ uploadQueue'[Len(uploadQueue')].operation = "upload"]_vars

\* two modifications of FileA reached the batcher in one window and made
\* one upload task
C9_Witness ==
  \E w \in 1..window :
    /\ Cardinality(arrivals(FileA, w)) = 2
    /\ \A t \in arrivals(FileA, w) : evlog[t].Operation = "modify"
    /\ \E t \in arrivals(FileA, w) : evlog[t].tasks = 1

\* C10: the pending map holds, for each path with an event in the current
\* window, the last event that arrived for it, and nothing else; an event
\* that was flushed is the last arrival of its path in its window and is
\* flushed once; when batchEvents selects again nothing flushed is pending
C10_LastWriteWinsPerWindow ==
  /\ \A p \in DOMAIN eventMap :
       /\ eventMap[p].Timestamp \in arrivals(p, window)
       /\ \A t \in arrivals(p, window) : t <= eventMap[p].Timestamp
  /\ \A t \in DOMAIN evlog : evlog[t].win = window => evlog[t].Path \in DOMAIN eventMap
  /\ \A t \in Flushed :
       /\ evlog[t].emits <= 1
       /\ \A u \in arrivals(evlog[t].Path, evlog[t].win) : u <= t
  /\ batcher.pc = "select" => \A p \in DOMAIN eventMap : eventMap[p].Timestamp \notin Flushed

\* of two events of one path in one window the second one was emitted, and
\* the flush left the map empty
C10_Witness ==
  /\ \E t, u \in DOMAIN evlog :
       /\ t < u
       /\ evlog[t].Path = evlog[u].Path
       /\ evlog[t].win = evlog[u].win
       /\ evlog[t].fate = "superseded"
       /\ evlog[u].emits = 1
  /\ batcher.pc = "select"
  /\ DOMAIN eventMap = {}

\* the events lost to a full channel, and the tasks lost to a full queue
OverflowDrops ==
  {t \in DOMAIN evlog : evlog[t].fate \in {"rawdrop", "flushdrop", "queuedrop"}}

\* C16: a full output channel never blocks a producer of the pipeline.  With
\* eventChan full the watcher can handle a new notification, and doing so
\* leaves the channel as it is; with the batched channel full the flush can
\* take each path it has still to send, leaving the channel as it is and
\* going on to the next path; with the upload queue full the engine can
\* take the next batched event, leaving the queue as it is.
C16_SaturationNeverBlocks ==
  wpanic = "no" =>
    /\ (~done /\ clock < MaxEvents /\ Len(eventChan) = EventChanCap) =>
         \A p \in exists :
           ~shouldSkipFile(p) =>
             ENABLED (handleEvent(p, {"Write"}) /\ eventChan' = eventChan
                        /\ clock' = clock + 1)
    /\ (batcher.pc \in {"flush", "lastflush"} /\ Len(batchedEvents) = BatchedCap) =>
         \A p \in batcher.todo :
           ENABLED (FlushSend(p) /\ batchedEvents' = batchedEvents
                      /\ batcher'.todo = batcher.todo \ {p})
    /\ (batcher.pc \in {"flush", "lastflush"} /\ batcher.todo = {}) => ENABLED FlushEnd
    /\ (batchedEvents # <<>> /\ Len(uploadQueue) = UploadQueueCap) =>
         ENABLED (Dispatch /\ uploadQueue' = uploadQueue
                    /\ batchedEvents' = Tail(batchedEvents))

\* the flush dropped an event on a full channel and the batcher is back at
\* its select, in the next window
C16_Witness ==
  /\ \E t \in DOMAIN evlog : evlog[t].fate = "flushdrop"
  /\ batcher = IdleBatcher /\ window > 1 /\ wpanic = "no"

\* C17: overflow drops are counted: every step that drops an event or a
\* task because the raw event channel, the batched channel or the upload
\* queue is full raises a counter of the program.
C17_DropsAreCounted ==
  [][Cardinality(OverflowDrops') > Cardinality(OverflowDrops) =>
       \E k \in DOMAIN wstats : wstats'[k] > wstats[k]]_vars

\* C18: a Stop of the watcher after its first Stop does not fail: it never
\* ends in the panic of a second close(w.done).
C18_WatcherStopIdempotent == wpanic # "close of closed channel"

\* C36: the watcher never sends on its event channel after Stop has closed
\* it.  Whatever the interleaving of FSWatcher.Stop with the event-processing
\* goroutine handling a notification, the process never ends in the panic
\* of a send on the closed event channel.
C36_NoSendOnClosedEventChannel == wpanic # "send on closed channel"

\* C21: deletion and download are never propagated.  Every task on the upload
\* queue, whether a reconciliation pass or the event dispatch put it there,
\* is an upload; no step removes an object from the bucket; and the dispatch
\* of a delete event changes neither the upload queue, nor the counters of
\* the worker, nor the bucket.
C21_NoDeleteNoDownload ==
  [][/\ \A task \in Range(uploadQueue') \cup Range(rqueue') : task.operation = "upload"
     /\ \A o \in bucket : \E n \in bucket' : n.Key = o.Key
     /\ (/\ batchedEvents # <<>>
         /\ batchedEvents' = Tail(batchedEvents)
         /\ Head(batchedEvents).Operation = "delete")
        => UNCHANGED <<uploadQueue, wstats, bucket, rqueue>>]_vars

\* the delete event of a removed file has been dispatched while an upload
\* task of an earlier event was waiting in the queue
C21_Witness ==
  /\ \E t \in DOMAIN evlog :
       /\ evlog[t].Operation = "delete"
       /\ evlog[t].fate = "skipped"
       /\ evlog[t].Path \notin exists
  /\ uploadQueue # <<>>

(***************************************************************************)
(* Event dispatch over several directories (SpecDispatch): the engine's    *)
(* handleFileEvents and processFileEvent on the events that come out of    *)
(* the batcher, with two configured directories, one inside the other,     *)
(* each enabled or not, registered in either order.  The watcher and the   *)
(* batcher are reduced to the action that puts an event on the batched     *)
(* channel; every file exists.                                             *)
(***************************************************************************)
DirI == <<"/", "r", "/", "i">>
FileX == <<"/", "r", "/", "i", "/", "x">>
FileXL == <<"/", "r", "/", "i", "/", "x", ".", "l">>
FileZ == <<"/", "q", "/", "z">>
\* a file of /r whose name begins like the directory /r/i
FileIX == <<"/", "r", "/", "i", "x">>
DispatchFiles == {FileA, FileX, FileXL, FileZ, FileIX}

\* FileEvent.Operation of the events dispatched here
BatchedOps == {"create", "delete", "move"}

OuterDir(enabled) ==
  [LocalPath |-> Root, RemotePath |-> <<"b", "/">>, SyncMode |-> "realtime",
   Recursive |-> TRUE, Enabled |-> enabled, Filters |-> <<>>]

InnerDir(enabled) ==
  [LocalPath |-> DirI, RemotePath |-> <<"c", "/">>, SyncMode |-> "both",
   Recursive |-> TRUE, Enabled |-> enabled, Filters |-> << <<"*", ".", "l">> >>]

\* config.Directories as Service.Start hands them to AddDirectory, in order
DirLists ==
  {<<OuterDir(a), InnerDir(b)>> : a \in BOOLEAN, b \in BOOLEAN}
    \cup {<<InnerDir(b), OuterDir(a)>> : a \in BOOLEAN, b \in BOOLEAN}

DispatchInit ==
  /\ engineDirs \in DirLists
  /\ filters = TempFilters
  /\ exists = DispatchFiles
  /\ clock = 0
  /\ eventChan = <<>>
  /\ done = FALSE
  /\ wctx = "live"
  /\ batcher = IdleBatcher
  /\ eventMap = <<>>
  /\ batchedEvents = <<>>
  /\ outClosed = FALSE
  /\ uploadQueue = <<>>
  /\ wpanic = "no"
  /\ wstats = [FilesUploaded |-> 0, SyncErrors |-> 0]
  /\ window = 1
  /\ evlog = <<>>

\* startFileWatcher registers the enabled directories in mode realtime or
\* both: the file lies in the tree of one of them
watched(p) ==
  \E i \in 1..Len(engineDirs) :
    /\ engineDirs[i].Enabled
    /\ engineDirs[i].SyncMode \in {"realtime", "both"}
    /\ IsUnder(p, engineDirs[i].LocalPath)

\* the batcher's flush puts the event of a watched, unfiltered file on its
\* channel
BatchedEvent(p, op) ==
  /\ clock < MaxEvents
  /\ watched(p)
  /\ ~shouldSkipFile(p)
  /\ Len(batchedEvents) < BatchedCap
  /\ LET event == [Path |-> p, Operation |-> op, IsDir |-> FALSE, Timestamp |-> clock + 1]
     IN  /\ batchedEvents' = Append(batchedEvents, event)
         /\ evlog' = Append(evlog, [Entry(event, "emitted") EXCEPT !.win = window,
                                                                   !.emits = 1])
  /\ clock' = clock + 1
  /\ UNCHANGED <<outsideWatch, wstats, filters, exists, eventChan, done, wctx, batcher,
                 eventMap, outClosed, uploadQueue, wpanic, window>>

NextDispatch ==
  \/ \E p \in DispatchFiles, op \in BatchedOps : BatchedEvent(p, op)
  \/ Dispatch
  \/ UploadTake

(***************************************************************************)
(* Claims about the dispatch                                               *)
(***************************************************************************)
\* the enabled directory with the longest LocalPath that is a prefix of the
\* path (0: none)
longestDir(path) ==
  LET c == {i \in 1..Len(engineDirs) :
              HasPrefix(path, engineDirs[i].LocalPath) /\ engineDirs[i].Enabled}
  IN  IF c = {} THEN 0
      ELSE CHOOSE i \in c :
             \A j \in c : Len(engineDirs[j].LocalPath) <= Len(engineDirs[i].LocalPath)

\* the engine takes the next batched event
Dispatched == batchedEvents # <<>> /\ batchedEvents' = Tail(batchedEvents)

\* C27: the dispatch of a batched event goes by the enabled directory with
\* the longest local root that is a prefix of the event's path, in whatever
\* order the directories were registered: a task that is enqueued has the
\* remote key made of that directory's remote path, none is enqueued when
\* that directory's filters match the file, and none when no enabled root
\* is a prefix of the path.
C27_LongestRootWins ==
  [][Dispatched =>
       LET event == Head(batchedEvents)
           i     == longestDir(event.Path)
       IN  IF i = 0 THEN uploadQueue' = uploadQueue
           ELSE LET d == engineDirs[i]
                IN  /\ ~shouldSyncFile(event.Path, d.Filters) => uploadQueue' = uploadQueue
                    /\ uploadQueue' # uploadQueue =>
                         uploadQueue' =
                           Append(uploadQueue,
                                  [localPath  |-> event.Path,
                                   remotePath |-> Join(d.RemotePath,
                                                       getRelativePath(event.Path,
                                                                       d.LocalPath)),
                                   operation  |-> "upload"])]_vars

\* C37: every task the dispatch makes is attributed to a directory that
\* contains the file and stays inside that directory's remote namespace.
\* The event's path lies under the matched local root at a path-component
\* boundary, and the task's key lies under the matched directory's remote
\* path, with no ".." element.
C37_TaskInsideMatchedDirectory ==
  [][(Dispatched /\ Len(uploadQueue') > Len(uploadQueue)) =>
       LET event == Head(batchedEvents)
           d     == engineDirs[matchedDir(event.Path)]
           task  == uploadQueue'[Len(uploadQueue')]
       IN  /\ IsUnder(event.Path, d.LocalPath)
           /\ HasPrefix(task.remotePath, d.RemotePath)
           /\ \A k \in 1..Len(Elems(task.remotePath)) :
                Elems(task.remotePath)[k] # DotDot]_vars

\* C28: the dispatch of a move event of a file that exists, passes the
\* filters and lies under an enabled realtime directory enqueues, the queue
\* having room and the context being live, the upload task a create event
\* of the same path makes.
C28_MoveTreatedAsCreate ==
  [][(/\ Dispatched
      /\ Head(batchedEvents).Operation = "move"
      /\ reachesSelect([Head(batchedEvents) EXCEPT !.Operation = "create"])
      /\ Len(uploadQueue) < UploadQueueCap
      /\ wctx = "live")
     => uploadQueue' = Append(uploadQueue, eventTask(Head(batchedEvents)))]_vars

(***************************************************************************)
(* A worker executing tasks (SpecTask): uploadWorker and downloadWorker    *)
(* receive a task, processUploadTask and processDownloadTask run the retry *)
(* loop around uploadFile and downloadFile, then record the outcome in the *)
(* metrics collector and in Engine.stats.  The tasks are the inputs of the *)
(* two process functions; an attempt's outcome is the environment's:       *)
(*   nil        the attempt returned no error                              *)
(*   io         a local file operation failed (open, read, seek, create)   *)
(*   transient  the adapter failed with a transport or 5xx error           *)
(*   permanent  the adapter failed on validation, precondition or          *)
(*              authorization                                              *)
(*   integrity  the digest did not match (BadDigest on upload, the MD5     *)
(*              comparison on download)                                    *)
(*   cancelled  the adapter gave up because its context is cancelled       *)
(* The worker's record keeps, for the task in hand, the history tries      *)
(* (attempts begun), calls (adapter calls made), oks (attempts that        *)
(* returned nil) and late (attempts begun after one had returned nil).     *)
(***************************************************************************)
MaxRetry == 2     \* the largest performance.retry_attempts configured
MaxTasks == 2     \* tasks handed to the worker in one behaviour

\* security.max_file_size as configured here, in the unit of Sizes
MaxFileSize == 1

\* one directory entry of the configuration, as Config.Validate judges it
dirError(d) ==
  IF d.LocalPath = <<>> THEN "local path is required"
  ELSE IF ~HasPrefix(d.LocalPath, <<"/">>) THEN "local path must be absolute"
  ELSE IF d.SyncMode \notin {"realtime", "scheduled", "both"} THEN "invalid sync mode"
  ELSE IF d.SyncMode \in {"scheduled", "both"} /\ d.Schedule = ""
       THEN "schedule is required for scheduled sync mode"
  ELSE "nil"

\* Config.Validate: the error it returns, "nil" for none; retry_attempts,
\* retry_delay and the other fields are not looked at
Validate(c) ==
  IF c.S3Bucket = "" THEN "AWS S3 bucket is required"
  ELSE IF c.MaxConcurrentUploads <= 0 THEN "max concurrent uploads must be positive"
  ELSE IF c.MaxConcurrentDownloads <= 0 THEN "max concurrent downloads must be positive"
  ELSE IF c.UploadChunkSize <= 0 THEN "upload chunk size must be positive"
  ELSE IF c.DownloadChunkSize <= 0 THEN "download chunk size must be positive"
  ELSE IF \E i \in DOMAIN c.Directories : dirError(c.Directories[i]) # "nil"
       THEN dirError(c.Directories[CHOOSE i \in DOMAIN c.Directories :
                                     /\ dirError(c.Directories[i]) # "nil"
                                     /\ \A j \in 1..(i - 1) : dirError(c.Directories[j]) = "nil"])
  ELSE "nil"

\* configuration files differing in performance.retry_attempts
RetryConfigs ==
  [S3Bucket : {"bkt"}, MaxConcurrentUploads : {1}, MaxConcurrentDownloads : {1},
   UploadChunkSize : {1}, DownloadChunkSize : {1}, RetryAttempts : (-1)..MaxRetry,
   Directories : {<< [LocalPath |-> Root, SyncMode |-> "both", Schedule |-> "@hourly"] >>}]

Tasks == [op : {"upload", "download"}, size : Sizes]

TaskQueues == UNION {[1..n -> Tasks] : n \in 1..MaxTasks}

ZeroStats == [FilesUploaded |-> 0, FilesDownloaded |-> 0, BytesUploaded |-> 0,
              BytesDownloaded |-> 0, SyncErrors |-> 0]

ZeroMetrics == [BandwidthUp |-> 0, BandwidthDown |-> 0, SyncStats |-> ZeroStats]

IdleWorker == [pc |-> "select", op |-> "none", size |-> 0, attempt |-> 0, err |-> "nil",
               tries |-> 0, calls |-> 0, oks |-> 0, late |-> 0]

\* no worker runs
TaskIdle ==
  /\ retryAttempts = 0
  /\ tctx = "live"
  /\ tqueue = <<>>
  /\ worker = Nil
  /\ stats = Nil
  /\ currentMetrics = Nil
  /\ thist = Nil

\* createSyncEngine hands performance.retry_attempts of a validated
\* configuration to NewEngine; the queue holds the tasks to process
TaskInit ==
  /\ \E c \in RetryConfigs : Validate(c) = "nil" /\ retryAttempts = c.RetryAttempts
  /\ tctx = "live"
  /\ tqueue \in TaskQueues
  /\ worker = IdleWorker
  /\ stats = ZeroStats
  /\ currentMetrics = ZeroMetrics
  /\ thist = [taken |-> 0, uploadedBytes |-> 0]

\* the loop condition of processUploadTask and processDownloadTask
Mut_loopContinues(attempt) == attempt <= retryAttempts + 1

\* the loop condition of processUploadTask and processDownloadTask
loopContinues(attempt) == attempt <= retryAttempts

\* the worker's select receives a task and calls process*Task, whose loop
\* is entered or not
WorkerReceive ==
  /\ worker.pc = "select"
  /\ tqueue # <<>>
  /\ worker' = [IdleWorker EXCEPT !.pc = IF loopContinues(0) THEN "try" ELSE "record",
                                  !.op = Head(tqueue).op, !.size = Head(tqueue).size]
  /\ tqueue' = Tail(tqueue)
  /\ thist' = [thist EXCEPT !.taken = @ + 1]
  /\ UNCHANGED <<outsideTask, retryAttempts, tctx, stats, currentMetrics>>

\* the worker's select finds ctx.Done() and returns
WorkerExit ==
  /\ worker.pc = "select"
  /\ tctx = "cancelled"
  /\ worker' = [worker EXCEPT !.pc = "exited"]
  /\ UNCHANGED <<outsideTask, retryAttempts, tctx, tqueue, stats, currentMetrics, thist>>

\* the context of the worker is cancelled (Service.Stop, or the caller)
TaskCancel ==
  /\ tctx = "live"
  /\ tctx' = "cancelled"
  /\ UNCHANGED <<outsideTask, retryAttempts, tqueue, worker, stats, currentMetrics, thist>>

\* attempt > 0: time.Sleep(e.retryDelay), which no context interrupts
RetrySleep ==
  /\ worker.pc = "sleep"
  /\ worker' = [worker EXCEPT !.pc = "try"]
  /\ UNCHANGED <<outsideTask, retryAttempts, tctx, tqueue, stats, currentMetrics, thist>>

\* the worker after an attempt that returned res, having called the
\* adapter or not: break on nil, else attempt++ and the loop condition
AfterAttempt(res, called) ==
  LET w == [worker EXCEPT !.err = res,
                          !.tries = @ + 1,
                          !.calls = @ + (IF called THEN 1 ELSE 0),
                          !.oks = @ + (IF res = "nil" THEN 1 ELSE 0),
                          !.late = @ + (IF worker.oks > 0 THEN 1 ELSE 0)]
  IN  IF res = "nil" THEN [w EXCEPT !.pc = "record"]
      ELSE [w EXCEPT !.attempt = @ + 1,
                     !.pc = IF loopContinues(worker.attempt + 1) THEN "sleep" ELSE "record"]

\* what one attempt of uploadFile can return
uploadResults ==
  IF tctx = "cancelled" THEN {"io", "cancelled"}
  ELSE {"io", "nil", "transient", "permanent", "integrity"}

\* what one attempt of downloadFile can return
downloadResults ==
  IF tctx = "cancelled" THEN {"cancelled"}
  ELSE {"nil", "transient", "permanent", "io", "integrity"}

\* SimpleCollector.RecordBandwidth and PrometheusCollector.RecordBandwidth
RecordBandwidth(m, bytes, direction) ==
  IF direction = "upload" THEN [m EXCEPT !.BandwidthUp = @ + bytes]
  ELSE IF direction = "download" THEN [m EXCEPT !.BandwidthDown = @ + bytes]
  ELSE m

\* uploadFile: open and hash the file, record the bandwidth, call
\* provider.Upload
uploadFile(res) ==
  /\ worker.pc = "try" /\ worker.op = "upload"
  /\ res \in uploadResults
  /\ worker' = AfterAttempt(res, res # "io")
  /\ currentMetrics' = IF res = "io" THEN currentMetrics
                       ELSE RecordBandwidth(currentMetrics, worker.size, "upload")
  /\ thist' = IF res = "nil" THEN [thist EXCEPT !.uploadedBytes = @ + worker.size]
              ELSE thist
  /\ UNCHANGED <<outsideTask, retryAttempts, tctx, tqueue, stats>>

\* downloadFile: call provider.Download, write and verify the local file,
\* record the bandwidth
downloadFile(res) ==
  /\ worker.pc = "try" /\ worker.op = "download"
  /\ res \in downloadResults
  /\ worker' = AfterAttempt(res, TRUE)
  /\ currentMetrics' = IF res = "nil"
                       THEN RecordBandwidth(currentMetrics, worker.size, "download")
                       ELSE currentMetrics
  /\ UNCHANGED <<outsideTask, retryAttempts, tctx, tqueue, stats, thist>>

\* SimpleCollector.RecordFileOperation and
\* PrometheusCollector.RecordFileOperation
RecordFileOperation(m, operation, success) ==
  IF success
  THEN IF operation = "upload" THEN [m EXCEPT !.SyncStats.FilesUploaded = @ + 1]
       ELSE IF operation = "download" THEN [m EXCEPT !.SyncStats.FilesDownloaded = @ + 1]
       ELSE m
  ELSE [m EXCEPT !.SyncStats.SyncErrors = @ + 1]

\* incrementFilesUploaded, incrementFilesDownloaded
incrementFiles(st, operation) ==
  IF operation = "upload" THEN [st EXCEPT !.FilesUploaded = @ + 1]
  ELSE [st EXCEPT !.FilesDownloaded = @ + 1]

\* incrementSyncErrors
incrementSyncErrors(st) == [st EXCEPT !.SyncErrors = @ + 1]

\* an end of process*Task that counts the successes only
Mut_processTaskEnd ==
  /\ worker.pc = "record"
  /\ currentMetrics' = RecordFileOperation(currentMetrics, worker.op, worker.err = "nil")
  /\ stats' = IF worker.err # "nil" THEN stats ELSE incrementFiles(stats, worker.op)
  /\ worker' = IdleWorker
  /\ UNCHANGED <<outsideTask, retryAttempts, tctx, tqueue, thist>>

\* the end of processUploadTask and processDownloadTask: the outcome is err
\* as the loop left it, recorded in the collector and in Engine.stats; the
\* worker returns to its select
processTaskEnd ==
  /\ worker.pc = "record"
  /\ currentMetrics' = RecordFileOperation(currentMetrics, worker.op, worker.err = "nil")
  /\ stats' = IF worker.err # "nil" THEN incrementSyncErrors(stats)
              ELSE incrementFiles(stats, worker.op)
  /\ worker' = IdleWorker
  /\ UNCHANGED <<outsideTask, retryAttempts, tctx, tqueue, thist>>

NextTask ==
  \/ WorkerReceive
  \/ WorkerExit
  \/ TaskCancel
  \/ RetrySleep
  \/ \E res \in {"nil", "io", "transient", "permanent", "integrity", "cancelled"} :
       uploadFile(res)
  \/ \E res \in {"nil", "io", "transient", "permanent", "integrity", "cancelled"} :
       downloadFile(res)
  \/ processTaskEnd

\* the steps of the worker goroutine; the adapter call of an attempt returns
WorkerStep ==
  \/ WorkerReceive
  \/ RetrySleep
  \/ \E res \in uploadResults : uploadFile(res)
  \/ \E res \in downloadResults : downloadFile(res)
  \/ processTaskEnd

(***************************************************************************)
(* Claims about the retry loop and the counters                            *)
(***************************************************************************)
\* the tasks Engine.stats counts as finished
Finished == stats.FilesUploaded + stats.FilesDownloaded + stats.SyncErrors

\* C38: no enqueued task is stranded while the engine runs.  Under fair
\* scheduling of the worker, with adapter calls that return, the n tasks put
\* on the queue are all taken and finished, each counted once as uploaded
\* (downloaded) or as an error, unless the context is cancelled first; at no
\* time are more tasks counted than were taken.
C38_NoTaskStranded ==
  /\ [](Finished <= thist.taken)
  /\ \A n \in 1..MaxTasks :
       (tctx = "live" /\ Len(tqueue) + thist.taken = n)
         ~> (tctx = "cancelled" \/ (tqueue = <<>> /\ thist.taken = n /\ Finished = n))

\* both tasks were taken and finished under a live context, one counted as
\* uploaded and one as an error
C38_Witness ==
  /\ worker # Nil
  /\ tctx = "live"
  /\ tqueue = <<>>
  /\ worker.pc = "select"
  /\ thist.taken = MaxTasks
  /\ Finished = MaxTasks
  /\ stats.FilesUploaded >= 1
  /\ stats.SyncErrors >= 1

\* the loop of the task in hand is over: only the recording is left
LoopOver == worker.pc = "record"

\* C11 as stated: with retry_attempts = R >= 0 each task causes at least 1
\* and at most R + 1 adapter calls, none after an attempt that succeeded,
\* it is dropped after R + 1 failures, and the worker never puts a task back
\* on the queue.  Fails: an upload whose local file cannot be opened or read
\* reaches the end of its attempts without a single adapter call.
C11_RetryBound ==
  [][/\ (retryAttempts >= 0 /\ LoopOver) =>
          /\ worker.calls >= 1 /\ worker.calls <= retryAttempts + 1
          /\ worker.late = 0 /\ worker.oks <= 1
          /\ (worker.oks = 0 => worker.tries = retryAttempts + 1)
     /\ (tqueue' = tqueue \/ (tqueue # <<>> /\ tqueue' = Tail(tqueue)))]_vars

\* C11 amended: with R >= 0 each task is attempted at least once and at most
\* R + 1 times; a download attempt makes exactly one adapter call and an
\* upload attempt at most one (none when the local file cannot be read), so
\* that there are at most R + 1 adapter calls; no attempt follows one that
\* succeeded;
\* a task none of whose attempts succeeded has had exactly R + 1 attempts and
\* ends in failure; the worker only ever removes tasks from the queue.
C11_RetryBoundOnAttempts ==
  [][/\ (retryAttempts >= 0 /\ LoopOver) =>
          /\ worker.tries >= 1 /\ worker.tries <= retryAttempts + 1
          /\ worker.calls <= worker.tries
          /\ (worker.op = "download" => worker.calls = worker.tries)
          /\ worker.late = 0 /\ worker.oks <= 1
          /\ (worker.oks = 1 <=> worker.err = "nil")
          /\ (worker.oks = 0 => worker.tries = retryAttempts + 1)
     /\ (LoopOver /\ worker' # worker) => (worker' = IdleWorker /\ tqueue' = tqueue)
     /\ (tqueue' = tqueue \/ (tqueue # <<>> /\ tqueue' = Tail(tqueue)))]_vars

\* a task with R = 2 that failed three times, two of them at the adapter,
\* and is about to be dropped
C11_Witness ==
  /\ retryAttempts = 2 /\ LoopOver
  /\ worker.tries = 3 /\ worker.calls = 2 /\ worker.oks = 0

\* the errors that are permanent for a task of kind op
PermanentErrors(op) == {"permanent"} \cup (IF op = "upload" THEN {"integrity"} ELSE {})

\* C12: an attempt that failed with a permanent error (validation,
\* precondition, authorization, or an integrity mismatch on upload) is the
\* task's only attempt: the task is then recorded as failed, with no retry
\* delay and no further attempt.
C12_PermanentErrorsShortCircuit ==
  (worker.pc \in {"sleep", "try", "record"} /\ worker.err \in PermanentErrors(worker.op))
    => (worker.pc = "record" /\ worker.tries = 1)

\* C13: once the context is cancelled the worker neither starts a retry
\* delay nor makes another attempt for the task in hand: no step taken with
\* a cancelled context leaves the worker in its delay, and none is a retry.
C13_CancellationNeverRetried ==
  [][tctx = "cancelled" /\ worker.pc \in {"sleep", "try"} =>
       /\ worker'.pc # "sleep"
       /\ (worker.attempt > 0 => worker'.tries = worker.tries)]_vars

\* C14: for every retry_attempts that Config.Validate accepts, when an
\* upload task is over files-uploaded has grown by 1 and the sync errors by
\* 0 if some upload attempt of the task succeeded, and otherwise the sync
\* errors by 1 and files-uploaded by 0; in Engine.stats and in the
\* collector's statistics alike.
C14_CountersReflectOutcome ==
  [][(LoopOver /\ worker.op = "upload" /\ worker' # worker) =>
       LET up == IF worker.oks > 0 THEN 1 ELSE 0
       IN  /\ stats'.FilesUploaded = stats.FilesUploaded + up
           /\ stats'.SyncErrors = stats.SyncErrors + (1 - up)
           /\ currentMetrics'.SyncStats.FilesUploaded =
                currentMetrics.SyncStats.FilesUploaded + up
           /\ currentMetrics'.SyncStats.SyncErrors =
                currentMetrics.SyncStats.SyncErrors + (1 - up)]_vars

\* C15: the bytes-uploaded total of the statistics, as Engine.GetStats and
\* the collector's GetMetrics report it, is at least the sum of the sizes of
\* the uploads that succeeded.
C15_BytesUploadedCoversUploads ==
  /\ stats.BytesUploaded >= thist.uploadedBytes
  /\ currentMetrics.SyncStats.BytesUploaded >= thist.uploadedBytes

\* C23: no file larger than security.max_file_size is handed to the
\* adapter's upload operation: a worker that has called provider.Upload for
\* its task holds a task whose size is at most MaxFileSize.
C23_OversizedNeverUploaded ==
  (worker.op = "upload" /\ worker.calls > 0) => worker.size <= MaxFileSize

(***************************************************************************)
(* The service and its reconfiguration (SpecService): Service.Start,       *)
(* Service.Stop and Service.UpdateConfig, each under Service.mutex, on the *)
(* service's configuration and component set.  A component is the record   *)
(* [cfg, gen]: the configuration it was built from and the number of the   *)
(* initializeComponents run that built it (0: NewService); NoComponent is  *)
(* the nil interface.  An engine is "new", "running", "stopped" (its       *)
(* channels are closed) or "restarted" (running again on closed channels). *)
(* A caller's record is [op, fn, pc, arg, old, restart, before]: the call  *)
(* made, the function of the service it is executing (UpdateConfig calls   *)
(* s.Stop and s.Start), its position, the new configuration, oldConfig,    *)
(* whether UpdateConfig took its running branch, and as history the        *)
(* configuration and components found when the call got the mutex.         *)
(* sync.RWMutex is not reentrant and has no owner: Lock waits until the    *)
(* mutex is free, whoever holds it, and Unlock frees it.                   *)
(***************************************************************************)
MaxUpdates == 2     \* UpdateConfig calls in one behaviour

NoComponent == [cfg |-> Nil, gen |-> -1]

Component(c, g) == [cfg |-> c, gen |-> g]

\* a configuration file for the bucket named
ServiceConfig(bucketName) ==
  [S3Bucket |-> bucketName, MaxConcurrentUploads |-> 5, MaxConcurrentDownloads |-> 5,
   UploadChunkSize |-> 1, DownloadChunkSize |-> 1, RetryAttempts |-> 3,
   Directories |-> << [LocalPath |-> Root, SyncMode |-> "both", Schedule |-> "@hourly"] >>]

InitialConfig == ServiceConfig("bkt")

\* what UpdateConfig is called with: a configuration without bucket, which
\* Validate rejects, and one for another bucket
NewConfigs == {ServiceConfig(""), ServiceConfig("bkt2")}

ServiceOps == {"Service.Start", "Service.Stop", "Service.UpdateConfig"}

IdleCall == [op |-> "none", fn |-> "none", pc |-> "idle", arg |-> Nil, old |-> Nil,
             restart |-> FALSE, before |-> Nil]

\* the configuration record and the component set of the service
Components(s) == [config |-> s.config, provider |-> s.provider, watcher |-> s.watcher,
                  metrics |-> s.metrics, engine |-> s.engine]

\* NewService: the components are built from the initial configuration
NewService ==
  [config |-> InitialConfig, provider |-> Component(InitialConfig, 0),
   watcher |-> Component(InitialConfig, 0), metrics |-> Component(InitialConfig, 0),
   engine |-> Component(InitialConfig, 0), running |-> FALSE, ctx |-> "none"]

\* no service has been made
ServiceIdle ==
  /\ sv = Nil
  /\ svmutex = "free"
  /\ scall = <<>>
  /\ sret = Nil
  /\ engines = <<>>
  /\ ngen = 0
  /\ nupd = 0
  /\ spanic = "no"

\* after NewService: no thread is in a call, the first engine is new
ServiceInit ==
  /\ sv = NewService
  /\ svmutex = "free"
  /\ scall = [c \in Callers |-> IdleCall]
  /\ sret = [caller |-> "none", op |-> "none", val |-> "none"]
  /\ engines = [g \in 0..MaxUpdates |-> IF g = 0 THEN "new" ELSE "none"]
  /\ ngen = 0
  /\ nupd = 0
  /\ spanic = "no"

\* a thread calls Start, Stop or UpdateConfig(newConfig)
ServiceInvoke(c) ==
  /\ spanic = "no"
  /\ scall[c] = IdleCall
  /\ \E op \in ServiceOps, newConfig \in NewConfigs \cup {Nil} :
       /\ (op = "Service.UpdateConfig") <=> (newConfig # Nil)
       /\ op = "Service.UpdateConfig" => nupd < MaxUpdates
       /\ nupd' = IF op = "Service.UpdateConfig" THEN nupd + 1 ELSE nupd
       /\ scall' = [scall EXCEPT ![c] =
                      [IdleCall EXCEPT !.op = op, !.fn = op, !.pc = "lock", !.arg = newConfig]]
  /\ UNCHANGED <<outsideService, sv, svmutex, sret, engines, ngen, spanic>>

\* s.mutex.Lock() at the head of Start, Stop and UpdateConfig
ServiceLock(c) ==
  /\ spanic = "no"
  /\ scall[c].pc = "lock"
  /\ svmutex = "free"
  /\ svmutex' = c
  /\ scall' = [scall EXCEPT ![c].pc = "body",
                            ![c].before = IF scall[c].fn = scall[c].op
                                          THEN Components(sv) ELSE @]
  /\ UNCHANGED <<outsideService, sv, sret, engines, ngen, nupd, spanic>>

\* the caller after fn returned val and its deferred s.mutex.Unlock() ran:
\* back in UpdateConfig if that called fn, out of the call otherwise
Returned(c, val) ==
  IF scall[c].fn = scall[c].op THEN IdleCall
  ELSE [scall[c] EXCEPT !.fn = "Service.UpdateConfig",
                        !.pc = IF scall[c].fn = "Service.Stop"
                               THEN (IF val = "nil" THEN "init" ELSE "failed")
                               ELSE (IF val = "nil" THEN "done" ELSE "failed")]

\* what the last return was, after fn returned val
Returns(c, val) ==
  IF scall[c].fn = scall[c].op THEN [caller |-> c, op |-> scall[c].op, val |-> val]
  ELSE sret

\* Engine.Start on an engine in state e: the state after, "error" if it runs
engineStart(e) ==
  IF e = "new" THEN "running" ELSE IF e = "stopped" THEN "restarted" ELSE "error"

\* the body of Service.Start
ServiceStart(c) ==
  /\ spanic = "no"
  /\ scall[c].fn = "Service.Start" /\ scall[c].pc = "body"
  /\ LET g   == sv.engine.gen
         val == IF sv.running THEN "service is already running"
                ELSE IF engineStart(engines[g]) = "error" THEN "failed to start sync engine"
                ELSE "nil"
     IN  /\ sv' = IF sv.running THEN sv
                  ELSE IF val = "nil" THEN [sv EXCEPT !.ctx = "live", !.running = TRUE]
                  ELSE [sv EXCEPT !.ctx = "live"]
         /\ engines' = IF val = "nil" THEN [engines EXCEPT ![g] = engineStart(@)]
                       ELSE engines
         /\ scall' = [scall EXCEPT ![c] = Returned(c, val)]
         /\ sret' = Returns(c, val)
  /\ svmutex' = "free"
  /\ UNCHANGED <<outsideService, ngen, nupd, spanic>>

\* the body of Service.Stop; Engine.Stop closes the channels of its engine,
\* which panics if they are closed already
ServiceStop(c) ==
  /\ spanic = "no"
  /\ scall[c].fn = "Service.Stop" /\ scall[c].pc = "body"
  /\ LET g == sv.engine.gen
     IN  IF sv.running /\ engines[g] = "restarted"
         THEN /\ spanic' = "close of closed channel"
              /\ sv' = [sv EXCEPT !.ctx = "cancelled"]
              /\ UNCHANGED <<svmutex, scall, sret, engines>>
         ELSE /\ sv' = IF sv.running THEN [sv EXCEPT !.ctx = "cancelled", !.running = FALSE]
                       ELSE sv
              /\ engines' = IF sv.running /\ engines[g] = "running"
                            THEN [engines EXCEPT ![g] = "stopped"] ELSE engines
              /\ scall' = [scall EXCEPT ![c] = Returned(c, "nil")]
              /\ sret' = Returns(c, "nil")
              /\ svmutex' = "free"
              /\ UNCHANGED spanic
  /\ UNCHANGED <<outsideService, ngen, nupd>>

\* UpdateConfig up to its branch on s.running: an invalid configuration is
\* returned as an error; else s.config = newConfig and either s.Stop() is
\* called, which begins with s.mutex.Lock(), or initializeComponents is next
UpdateConfig(c) ==
  /\ spanic = "no"
  /\ scall[c].fn = "Service.UpdateConfig" /\ scall[c].pc = "body"
  /\ IF Validate(scall[c].arg) # "nil"
     THEN /\ scall' = [scall EXCEPT ![c] = IdleCall]
          /\ sret' = [caller |-> c, op |-> scall[c].op, val |-> "invalid configuration"]
          /\ svmutex' = "free"
          /\ UNCHANGED sv
     ELSE /\ sv' = [sv EXCEPT !.config = scall[c].arg]
          /\ scall' = [scall EXCEPT ![c].old = sv.config,
                                    ![c].restart = sv.running,
                                    ![c].fn = IF sv.running THEN "Service.Stop" ELSE @,
                                    ![c].pc = IF sv.running THEN "lock" ELSE "init"]
          /\ UNCHANGED <<sret, svmutex>>
  /\ UNCHANGED <<outsideService, engines, ngen, nupd, spanic>>

\* how a run of initializeComponents can end
InitOutcomes == {"ok", "failed to create cloud provider", "failed to create file watcher"}

\* initializeComponents, numbered g, on the service s: the provider and the
\* watcher are assigned even when their construction failed (to nil), the
\* collector and the engine only after both succeeded
initializeComponents(s, g, outcome) ==
  IF outcome = "failed to create cloud provider"
  THEN [s EXCEPT !.provider = NoComponent]
  ELSE IF outcome = "failed to create file watcher"
  THEN [s EXCEPT !.provider = Component(s.config, g), !.watcher = NoComponent]
  ELSE [s EXCEPT !.provider = Component(s.config, g), !.watcher = Component(s.config, g),
                 !.metrics = Component(s.config, g), !.engine = Component(s.config, g)]

\* the rest of UpdateConfig.  At initializeComponents: on failure s.config
\* is set back to oldConfig and the error returned; on success UpdateConfig
\* returns nil, or calls s.Start() when it had stopped the service.  After
\* the s.Stop() or s.Start() it called: an error of either sets s.config
\* back to oldConfig and is returned
UpdateConfigRest(c, outcome) ==
  /\ spanic = "no"
  /\ scall[c].fn = "Service.UpdateConfig" /\ scall[c].pc \in {"init", "done", "failed"}
  /\ IF scall[c].pc = "init"
     THEN /\ ngen' = ngen + 1
          /\ LET s == initializeComponents(sv, ngen + 1, outcome)
             IN  IF outcome # "ok"
                 THEN /\ sv' = [s EXCEPT !.config = scall[c].old]
                      /\ engines' = engines
                      /\ scall' = [scall EXCEPT ![c] = IdleCall]
                      /\ sret' = [caller |-> c, op |-> scall[c].op, val |-> outcome]
                      /\ svmutex' = "free"
                 ELSE /\ sv' = s
                      /\ engines' = [engines EXCEPT ![ngen + 1] = "new"]
                      /\ IF scall[c].restart
                         THEN /\ scall' = [scall EXCEPT ![c].fn = "Service.Start",
                                                        ![c].pc = "lock"]
                              /\ UNCHANGED <<sret, svmutex>>
                         ELSE /\ scall' = [scall EXCEPT ![c] = IdleCall]
                              /\ sret' = [caller |-> c, op |-> scall[c].op, val |-> "nil"]
                              /\ svmutex' = "free"
     ELSE /\ outcome = "ok"
          /\ sv' = IF scall[c].pc = "failed" THEN [sv EXCEPT !.config = scall[c].old] ELSE sv
          /\ scall' = [scall EXCEPT ![c] = IdleCall]
          /\ sret' = [caller |-> c, op |-> scall[c].op,
                      val |-> IF scall[c].pc = "failed" THEN "error" ELSE "nil"]
          /\ svmutex' = "free"
          /\ UNCHANGED <<engines, ngen>>
  /\ UNCHANGED <<outsideService, nupd, spanic>>

\* the steps of the call of thread c
CallStep(c) ==
  \/ ServiceLock(c)
  \/ ServiceStart(c)
  \/ ServiceStop(c)
  \/ UpdateConfig(c)
  \/ \E outcome \in InitOutcomes : UpdateConfigRest(c, outcome)

NextService ==
  \/ \E c \in Callers : ServiceInvoke(c)
  \/ \E c \in Callers : ServiceLock(c)
  \/ \E c \in Callers : ServiceStart(c)
  \/ \E c \in Callers : ServiceStop(c)
  \/ \E c \in Callers : UpdateConfig(c)
  \/ \E c \in Callers, outcome \in InitOutcomes : UpdateConfigRest(c, outcome)

(***************************************************************************)
(* Claims about reconfiguration                                            *)
(***************************************************************************)
\* thread c is in UpdateConfig with a valid configuration, has found the
\* service running and has called s.Stop()
Reconfiguring(c) ==
  /\ scall[c].op = "Service.UpdateConfig"
  /\ scall[c].fn = "Service.Stop"
  /\ Validate(scall[c].arg) = "nil"

\* C19: UpdateConfig with a valid configuration on a running service
\* terminates: a thread that has reached the stop of the old components
\* eventually returns from its call.
C19_ReconfigureTerminates ==
  \A c \in Callers : Reconfiguring(c) ~> (scall[c] = IdleCall)

\* C20: whenever UpdateConfig returns an error, the configuration record
\* and the components (provider, watcher, metrics, engine) of the service
\* are those it had when the call began.
C20_RollbackOnFailure ==
  [][\A c \in Callers :
       (/\ scall[c].op = "Service.UpdateConfig"
        /\ scall'[c] = IdleCall
        /\ sret'.val # "nil") => Components(sv') = scall[c].before]_vars

(***************************************************************************)
(* One transfer (SpecTransfer): the attempts of uploadFile and             *)
(* downloadFile on one task, with the bytes of the local file and of the   *)
(* remote object.  Bytes are numbers 0..255, contents and digests are      *)
(* sequences of bytes, and the hex and base64 strings are sequences of     *)
(* one-character strings, so that fmt's %x, hex.DecodeString and           *)
(* base64.StdEncoding are computed digit by digit.  crypto/md5 itself is   *)
(* replaced by a digest of the same length that tells the contents of this *)
(* specification apart.  The local file is [exists, data]; the transfer is *)
(* the record                                                              *)
(*   [provider, op, size, pc, attempt, read, metadata, before, err,        *)
(*    writes]                                                              *)
(* with size the size in task.fileInfo, read the bytes the attempt hashed, *)
(* metadata the FileMetadata of the attempt (built by uploadFile, or       *)
(* returned by the provider's Download), before the local file when the    *)
(* task began and writes the number of rewrites of the local file.         *)
(***************************************************************************)
MaxContentLen == 2   \* the length of the longest file content
MaxFileWrites == 1   \* rewrites of the local file while the task runs
MaxXferRetry == 1    \* performance.retry_attempts in this specification

\* md5.Size
DigestSize == 16

Bytes == {0, 255}
Contents == UNION {[1..n -> Bytes] : n \in 0..MaxContentLen}

RECURSIVE mix(_, _)
mix(c, j) == IF j > Len(c) THEN 0 ELSE (j + 1) * c[j] + mix(c, j + 1)

\* stands for md5.Sum: DigestSize bytes, different for different contents
md5sum(c) == [i \in 1..DigestSize |-> (Len(c) * 11 + mix(c, 1) + i * 7) % 256]

HexDigits == <<"0", "1", "2", "3", "4", "5", "6", "7", "8", "9", "a", "b", "c", "d", "e", "f">>

RECURSIVE EncodeHex(_)
\* fmt.Sprintf("%x", bytes): two lower-case digits for every byte
EncodeHex(bytes) ==
  IF bytes = <<>> THEN <<>>
  ELSE <<HexDigits[(Head(bytes) \div 16) + 1], HexDigits[(Head(bytes) % 16) + 1]>>
       \o EncodeHex(Tail(bytes))

\* a fromHexChar that knows the digits 0-9 and A-F only
Mut_fromHexChar(ch) ==
  IF \E i \in 1..10 : HexDigits[i] = ch THEN (CHOOSE i \in 1..10 : HexDigits[i] = ch) - 1
  ELSE IF ch \in {"A", "B", "C", "D", "E", "F"}
       THEN CASE ch = "A" -> 10 [] ch = "B" -> 11 [] ch = "C" -> 12
              [] ch = "D" -> 13 [] ch = "E" -> 14 [] ch = "F" -> 15
  ELSE -1

\* encoding/hex fromHexChar: -1 for a character that is no hex digit
fromHexChar(ch) ==
  IF \E i \in 1..16 : HexDigits[i] = ch THEN (CHOOSE i \in 1..16 : HexDigits[i] = ch) - 1
  ELSE IF ch \in {"A", "B", "C", "D", "E", "F"}
       THEN CASE ch = "A" -> 10 [] ch = "B" -> 11 [] ch = "C" -> 12
              [] ch = "D" -> 13 [] ch = "E" -> 14 [] ch = "F" -> 15
  ELSE -1

RECURSIVE DecodePairs(_)
DecodePairs(s) ==
  IF s = <<>> THEN <<>>
  ELSE <<fromHexChar(s[1]) * 16 + fromHexChar(s[2])>> \o DecodePairs(SubSeq(s, 3, Len(s)))

\* hex.DecodeString: an odd length or a character that is no digit is an error
DecodeString(s) ==
  IF Len(s) % 2 = 1 \/ \E i \in 1..Len(s) : fromHexChar(s[i]) = -1
  THEN [ok |-> FALSE, bytes |-> <<>>]
  ELSE [ok |-> TRUE, bytes |-> DecodePairs(s)]

encodeStd ==
  <<"A", "B", "C", "D", "E", "F", "G", "H", "I", "J", "K", "L", "M", "N", "O", "P",
    "Q", "R", "S", "T", "U", "V", "W", "X", "Y", "Z", "a", "b", "c", "d", "e", "f",
    "g", "h", "i", "j", "k", "l", "m", "n", "o", "p", "q", "r", "s", "t", "u", "v",
    "w", "x", "y", "z", "0", "1", "2", "3", "4", "5", "6", "7", "8", "9", "+", "/">>

RECURSIVE EncodeToString(_)
\* base64.StdEncoding.EncodeToString: three bytes make four characters, the
\* last one or two bytes are padded with "="
EncodeToString(b) ==
  IF b = <<>> THEN <<>>
  ELSE IF Len(b) = 1
       THEN <<encodeStd[(b[1] \div 4) + 1], encodeStd[((b[1] % 4) * 16) + 1], "=", "=">>
  ELSE IF Len(b) = 2
       THEN <<encodeStd[(b[1] \div 4) + 1],
              encodeStd[((b[1] % 4) * 16 + b[2] \div 16) + 1],
              encodeStd[((b[2] % 16) * 4) + 1], "=">>
  ELSE <<encodeStd[(b[1] \div 4) + 1],
         encodeStd[((b[1] % 4) * 16 + b[2] \div 16) + 1],
         encodeStd[((b[2] % 16) * 4 + b[3] \div 64) + 1],
         encodeStd[(b[3] % 64) + 1]>> \o EncodeToString(SubSeq(b, 4, Len(b)))

NoFile == [exists |-> FALSE, data |-> <<>>]
File(data) == [exists |-> TRUE, data |-> data]

NoMetadata == [Size |-> 0, MD5Hash |-> <<>>]

\* the providers behind interfaces.CloudProvider: the S3 provider of this
\* repository, and one whose Download reports the digest stored with the object
Providers == {"S3Provider", "digest"}

IdleTransfer ==
  [provider |-> "S3Provider", op |-> "none", size |-> 0, pc |-> "start", attempt |-> 0,
   read |-> <<>>, metadata |-> NoMetadata, before |-> NoFile, err |-> "nil", writes |-> 0]

\* no task is being transferred
TransferIdle ==
  /\ localFile = Nil
  /\ s3object = Nil
  /\ puts = {}
  /\ xfer = Nil

\* a worker has received the task: an upload of an existing file whose
\* object is not in the bucket, or a download of an object to a path that
\* holds a file or not
TransferInit ==
  /\ puts = {}
  /\ \E provider \in Providers, op \in {"upload", "download"}, c \in Contents :
       /\ IF op = "upload"
          THEN /\ provider = "S3Provider"
               /\ localFile = File(c)
               /\ s3object = [exists |-> FALSE, Body |-> <<>>, md5hash |-> <<>>]
          ELSE /\ localFile \in {NoFile, File(<<0>>)}
               /\ s3object = [exists |-> TRUE, Body |-> c, md5hash |-> EncodeHex(md5sum(c))]
       /\ xfer = [IdleTransfer EXCEPT !.provider = provider, !.op = op,
                                      !.size = Len(localFile.data), !.before = localFile]

\* the attempt returned err: break on nil, else attempt++ and the loop test
afterAttempt(x, err) ==
  IF err = "nil" THEN [x EXCEPT !.err = "nil", !.pc = "done"]
  ELSE [x EXCEPT !.err = err, !.attempt = @ + 1,
                 !.pc = IF x.attempt + 1 <= MaxXferRetry THEN "start" ELSE "done"]

\* the local file is rewritten while its upload task is in progress
FileWrite ==
  /\ xfer.op = "upload" /\ xfer.pc # "done"
  /\ xfer.writes < MaxFileWrites
  /\ \E c \in Contents : localFile' = File(c)
  /\ xfer' = [xfer EXCEPT !.writes = @ + 1]
  /\ UNCHANGED <<outsideTransfer, s3object, puts>>

\* uploadFile: the FileMetadata made of the bytes copied into the hasher
fileMetadata(read) == [Size |-> Len(read), MD5Hash |-> EncodeHex(md5sum(read))]

\* uploadFile up to provider.Upload: open the file, hash it, seek back
hashFile ==
  /\ xfer.op = "upload" /\ xfer.pc = "start"
  /\ xfer' = [xfer EXCEPT !.read = localFile.data, !.metadata = fileMetadata(localFile.data),
                          !.pc = "put"]
  /\ UNCHANGED <<outsideTransfer, localFile, s3object, puts>>

\* S3Provider.Upload: the PutObjectInput made of the metadata
PutObjectInput(metadata) ==
  LET decoded == DecodeString(metadata.MD5Hash)
  IN  [ContentLength |-> metadata.Size,
       md5hash       |-> metadata.MD5Hash,
       ContentMD5    |-> IF metadata.MD5Hash # <<>> /\ decoded.ok
                         THEN EncodeToString(decoded.bytes) ELSE <<>>]

\* the store takes the PUT: the body has the announced length and, when the
\* integrity header is sent, the digest the header announces
Accepts(input, body) ==
  /\ Len(body) = input.ContentLength
  /\ input.ContentMD5 # <<>> => input.ContentMD5 = EncodeToString(md5sum(body))

\* provider.Upload: PutObject sends the file as it is now; the store takes
\* it or not, or the request fails on its way
Upload ==
  /\ xfer.op = "upload" /\ xfer.pc = "put"
  /\ LET input == PutObjectInput(xfer.metadata)
         body  == localFile.data
     IN  \/ /\ Accepts(input, body)
            /\ s3object' = [exists |-> TRUE, Body |-> body, md5hash |-> input.md5hash]
            /\ puts' = puts \cup {[input |-> input, read |-> xfer.read, body |-> body]}
            /\ xfer' = afterAttempt(xfer, "nil")
         \/ /\ xfer' = afterAttempt(xfer, "failed to upload file")
            /\ UNCHANGED <<s3object, puts>>
  /\ UNCHANGED <<outsideTransfer, localFile>>

\* the FileMetadata the provider's Download returns: S3Provider.Download
\* fills in the size and leaves MD5Hash empty
DownloadMetadata(provider) ==
  [Size |-> Len(s3object.Body),
   MD5Hash |-> IF provider = "S3Provider" THEN <<>> ELSE s3object.md5hash]

\* the bytes io.Copy can receive from the provider's reader: the object, or
\* as many other bytes
Streams == {c \in Contents : Len(c) = Len(s3object.Body)}

\* downloadFile: one attempt.  provider.Download fails and nothing is
\* written; or os.Create truncates the local file and io.Copy fails after
\* some bytes; or the stream is written and its digest compared with the
\* one reported
downloadAttempt ==
  /\ xfer.op = "download" /\ xfer.pc = "start"
  /\ LET metadata == DownloadMetadata(xfer.provider)
     IN  \/ /\ xfer' = afterAttempt(xfer, "failed to download file")
            /\ UNCHANGED localFile
         \/ \E c \in Streams, n \in 0..Len(s3object.Body) :
              /\ n < Len(c)
              /\ localFile' = File(SubSeq(c, 1, n))
              /\ xfer' = afterAttempt([xfer EXCEPT !.metadata = metadata],
                                      "failed to copy file data")
         \/ \E c \in Streams :
              /\ localFile' = File(c)
              /\ xfer' = afterAttempt([xfer EXCEPT !.metadata = metadata, !.read = c],
                                      IF metadata.MD5Hash # <<>>
                                         /\ metadata.MD5Hash # EncodeHex(md5sum(c))
                                      THEN "MD5 hash mismatch" ELSE "nil")
  /\ UNCHANGED <<outsideTransfer, s3object, puts>>

NextTransfer ==
  \/ FileWrite
  \/ hashFile
  \/ Upload
  \/ downloadAttempt

(***************************************************************************)
(* Claims about one transfer                                               *)
(***************************************************************************)
\* C24: for every upload the store accepted, the integrity header of the PUT
\* is the base64 form of the digest of the bytes uploadFile hashed in that
\* attempt, the md5-hash metadata is the hex form of the same digest, and
\* Content-Length is the number of bytes hashed.
C24_IntegrityHeaderOfBytesRead ==
  \A p \in puts :
    /\ p.input.ContentMD5 = EncodeToString(md5sum(p.read))
    /\ p.input.md5hash = EncodeHex(md5sum(p.read))
    /\ p.input.ContentLength = Len(p.read)

\* the file was rewritten after a failed attempt and the second attempt,
\* which hashed the new bytes, was accepted
C24_Witness ==
  /\ xfer.op = "upload" /\ xfer.pc = "done" /\ xfer.err = "nil" /\ xfer.attempt = 1
  /\ \E p \in puts :
       /\ p.read # xfer.before.data
       /\ Len(p.read) = MaxContentLen
       /\ p.body = p.read
       /\ Len(p.input.ContentMD5) = 24

MaxTicks == 2        \* scheduler ticks in one behaviour
MaxDispatches == 1   \* file events dispatched in one behaviour

DirQ == <<"/", "q">>

SiblingDir(path, mode, enabled) ==
  [LocalPath |-> path, RemotePath |-> <<"b", "/">>, SyncMode |-> mode,
   Recursive |-> TRUE, Enabled |-> enabled, Filters |-> <<>>]

\* config.Directories as loaded: two directories side by side
ConfigLists ==
  {<<SiblingDir(Root, m1, e1), SiblingDir(DirQ, m2, e2)>> :
     m1 \in Modes, e1 \in BOOLEAN, m2 \in Modes, e2 \in BOOLEAN}

\* the files whose events are dispatched
EventPaths == {FileA, FileZ}

IdleStartup == [pc |-> "off", i |-> 0, n |-> 0, tasks |-> EmptyBag, workers |-> FALSE]
IdleTicker == [pc |-> "off", tick |-> 0, todo |-> <<>>]

DirPaths == {Root, DirQ}

\* the history: startup passes by directory, the passes of the current tick by
\* directory, the passes that failed, file events dispatched, directories
\* removed from the running service, and those of them that got a scheduled
\* pass or a task of an event afterwards
NoLog ==
  [startup |-> [q \in DirPaths |-> 0], sched |-> [q \in DirPaths |-> 0],
   failed |-> {}, early |-> FALSE, events |-> 0, removed |-> {}, after |-> {}]

DirsIdle ==
  /\ sdirs = Nil
  /\ startup = Nil
  /\ ticker = Nil
  /\ plog = Nil

\* NewService with a loaded configuration, not started
DirsInit ==
  /\ \E l \in ConfigLists : sdirs = [arr |-> l, len |-> Len(l)]
  /\ startup = IdleStartup
  /\ ticker = IdleTicker
  /\ plog = NoLog
  /\ engineDirs = <<>>

\* s.config.Directories
configDirectories == SubSeq(sdirs.arr, 1, sdirs.len)

\* Engine.stats.ActiveDirectories, which AddDirectory sets to len(e.directories)
ActiveDirectories == Len(engineDirs)

\* the history after a pass or a dispatch for the directory
Logged(kind, path, ok) ==
  [plog EXCEPT
     !.startup = IF kind = "startup" THEN [@ EXCEPT ![path] = @ + 1] ELSE @,
     !.sched = IF kind = "sched" THEN [@ EXCEPT ![path] = @ + 1] ELSE @,
     !.failed = IF ok THEN @ ELSE @ \cup {<<kind, path>>},
     !.early = @ \/ (kind = "startup" /\ ~startup.workers),
     !.events = IF kind = "event" THEN @ + 1 ELSE @,
     !.after = IF kind \in {"sched", "event"} /\ path \in plog.removed
               THEN @ \cup {path} ELSE @]

\* Service.Start: AddDirectory for every configured directory, Engine.Start
\* (workers, and the scheduler when a directory is scheduled), then
\* go s.performInitialSync()
StartService ==
  /\ startup.pc = "off"
  /\ engineDirs' = engineDirs \o configDirectories
  /\ startup' = [IdleStartup EXCEPT !.pc = "go", !.workers = TRUE]
  /\ ticker' = [IdleTicker EXCEPT
                  !.pc = IF \E i \in 1..Len(engineDirs') :
                              engineDirs'[i].SyncMode \in {"scheduled", "both"}
                         THEN "select" ELSE "off"]
  /\ UNCHANGED <<outsideDirs, sdirs, plog>>

\* performInitialSync: the range expression is evaluated, once
PerformInitialSync ==
  /\ startup.pc = "go"
  /\ startup' = [startup EXCEPT !.pc = "loop", !.i = 1, !.n = sdirs.len]
  /\ UNCHANGED <<outsideDirs, sdirs, ticker, plog, engineDirs>>

\* performInitialSync: one iteration of the loop reads its element of the
\* backing array and starts a goroutine for an enabled directory
InitialSyncSpawn ==
  /\ startup.pc = "loop"
  /\ startup.i <= startup.n
  /\ LET d == sdirs.arr[startup.i]
     IN  startup' = [startup EXCEPT
                       !.i = @ + 1,
                       !.tasks = IF d.Enabled THEN @ (+) SetToBag({d.LocalPath}) ELSE @]
  /\ UNCHANGED <<outsideDirs, sdirs, ticker, plog, engineDirs>>

\* one goroutine of performInitialSync: engine.Sync for its directory; the
\* error is logged
InitialSyncPass(ok) ==
  /\ startup.pc = "loop"
  /\ \E path \in BagToSet(startup.tasks) :
       /\ plog' = Logged("startup", path, ok)
       /\ startup' = [startup EXCEPT !.tasks = @ (-) SetToBag({path})]
  /\ UNCHANGED <<outsideDirs, sdirs, ticker, engineDirs>>

\* performInitialSync: wg.Wait() returns
InitialSyncDone ==
  /\ startup.pc = "loop"
  /\ startup.i > startup.n
  /\ startup.tasks = EmptyBag
  /\ startup' = [startup EXCEPT !.pc = "done"]
  /\ UNCHANGED <<outsideDirs, sdirs, ticker, plog, engineDirs>>

\* runScheduledSync: the directories collected under the read lock
scheduledDirectories ==
  SelectSeq(engineDirs, LAMBDA d : d.SyncMode \in {"scheduled", "both"} /\ d.Enabled)

\* scheduledSyncWorker receives a tick: runScheduledSync collects
RunScheduledSync ==
  /\ ticker.pc = "select"
  /\ ticker.tick < MaxTicks
  /\ ticker' = [pc |-> IF scheduledDirectories = <<>> THEN "select" ELSE "run",
                tick |-> ticker.tick + 1, todo |-> scheduledDirectories]
  /\ plog' = [plog EXCEPT !.sched = NoLog.sched,
                          !.failed = {f \in @ : f[1] # "sched"}]
  /\ UNCHANGED <<outsideDirs, sdirs, startup, engineDirs>>

\* a runScheduledSync that returns at the first pass that fails
Mut_ScheduledPass(ok) ==
  /\ ticker.pc = "run"
  /\ plog' = Logged("sched", Head(ticker.todo).LocalPath, ok)
  /\ ticker' = [ticker EXCEPT
                  !.todo = IF ok THEN Tail(@) ELSE <<>>,
                  !.pc = IF ~ok \/ Tail(ticker.todo) = <<>> THEN "select" ELSE "run"]
  /\ UNCHANGED <<outsideDirs, sdirs, startup, engineDirs>>

\* runScheduledSync: e.Sync for the next directory; the error is logged
ScheduledPass(ok) ==
  /\ ticker.pc = "run"
  /\ plog' = Logged("sched", Head(ticker.todo).LocalPath, ok)
  /\ ticker' = [ticker EXCEPT
                  !.todo = Tail(@),
                  !.pc = IF Tail(ticker.todo) = <<>> THEN "select" ELSE "run"]
  /\ UNCHANGED <<outsideDirs, sdirs, startup, engineDirs>>

\* processFileEvent for an event of a file: a task is made when a directory
\* matches
ProcessFileEvent(path) ==
  /\ startup.workers
  /\ plog.events < MaxDispatches
  /\ matchedDir(path) # 0
  /\ plog' = Logged("event", engineDirs[matchedDir(path)].LocalPath, TRUE)
  /\ UNCHANGED <<outsideDirs, sdirs, startup, ticker, engineDirs>>

\* the index of the first configured directory with the local path (0: none)
configIndex(path) ==
  LET c == {i \in 1..sdirs.len : sdirs.arr[i].LocalPath = path}
  IN  IF c = {} THEN 0 ELSE CHOOSE i \in c : \A j \in c : i <= j

\* append(s[:i], s[i+1:]...): the elements after i move down by one in the
\* same backing array, whose last element stays
removeAt(arr, len, i) ==
  [k \in 1..Len(arr) |-> IF i <= k /\ k < len THEN arr[k + 1] ELSE arr[k]]

\* Service.RemoveDirectory: the directory leaves s.config.Directories; the
\* engine is not called
RemoveDirectory(path) ==
  /\ configIndex(path) # 0
  /\ sdirs' = [arr |-> removeAt(sdirs.arr, sdirs.len, configIndex(path)),
               len |-> sdirs.len - 1]
  /\ plog' = [plog EXCEPT !.removed = IF startup.workers THEN @ \cup {path} ELSE @]
  /\ UNCHANGED <<outsideDirs, startup, ticker, engineDirs>>

NextDirs ==
  \/ StartService
  \/ PerformInitialSync
  \/ InitialSyncSpawn
  \/ \E ok \in BOOLEAN : InitialSyncPass(ok)
  \/ InitialSyncDone
  \/ RunScheduledSync
  \/ \E ok \in BOOLEAN : ScheduledPass(ok)
  \/ \E path \in EventPaths : ProcessFileEvent(path)
  \/ \E path \in {Root, DirQ} : RemoveDirectory(path)

(***************************************************************************)
(* Claims about the directory set                                          *)
(***************************************************************************)
\* C31: startup reconciliation.  When performInitialSync has finished, every
\* configured directory that is enabled, whatever its sync mode, has had
\* exactly one pass, made in a task of its own after the engine's workers
\* were started, whether or not the passes of the others failed.
C31_StartupPassPerEnabledDirectory ==
  startup.pc = "done" =>
    /\ \A i \in 1..sdirs.len :
         sdirs.arr[i].Enabled => plog.startup[sdirs.arr[i].LocalPath] = 1
    /\ ~plog.early

\* the directory is one a scheduler tick reconciles
scheduled(d) == d.Enabled /\ d.SyncMode \in {"scheduled", "both"}

\* C32: the scheduled pass.  When a tick's runScheduledSync has returned,
\* every registered directory that is enabled and in mode scheduled or both
\* has had exactly one pass in that tick, the disabled and the realtime ones
\* none, whether or not a pass failed; the passes are made one at a time.
C32_ScheduledPassPerDirectory ==
  /\ (ticker # Nil /\ ticker.pc = "select" /\ ticker.tick > 0) =>
       \A i \in 1..Len(engineDirs) :
         plog.sched[engineDirs[i].LocalPath] = IF scheduled(engineDirs[i]) THEN 1 ELSE 0
  /\ (ticker # Nil /\ ticker.pc = "run") =>
       \A i \in 1..Len(engineDirs) :
         plog.sched[engineDirs[i].LocalPath] =
           IF /\ scheduled(engineDirs[i])
              /\ \A k \in 1..Len(ticker.todo) : ticker.todo[k] # engineDirs[i]
           THEN 1 ELSE 0

\* a tick in which the pass of /r failed and /q had its pass all the same
C32_Witness ==
  /\ ticker # Nil /\ ticker.pc = "select"
  /\ <<"sched", Root>> \in plog.failed
  /\ <<"sched", DirQ>> \notin plog.failed
  /\ plog.sched[Root] = 1 /\ plog.sched[DirQ] = 1

\* C40: removing a directory takes effect at run time.  Once
\* Service.RemoveDirectory(p) has returned on a running service, no scheduled
\* pass is made for p, no event of a file under p makes a task, and
\* ActiveDirectories counts the registered directories without p.
C40_RemovedDirectoryLeavesRuntime ==
  plog # Nil =>
    \A path \in plog.removed :
      /\ path \notin plog.after
      /\ ActiveDirectories =
           Cardinality({i \in 1..Len(engineDirs) : engineDirs[i].LocalPath \notin plog.removed})

(***************************************************************************)
(* The local enumeration of one pass (SpecEnum): getLocalFiles on a tree   *)
(* in which one entry may fail (its lstat, or the reading of a             *)
(* subdirectory), and the files syncDirectory makes tasks of.  The remote  *)
(* listing is empty, so every file that passes shouldSyncFile needs an     *)
(* upload, and the queue has room.                                         *)
(***************************************************************************)
DirD == <<"/", "r", "/", "d">>

\* the files of the tree, some always there and some there or not
FixedFiles == {FileH, FileT, FileSwp, FileL}
OptionalFiles == {FileF, FileG, FileTmp}

\* no entry fails
NoEntry == <<>>

\* the directory records reconciled here
EnumDirs ==
  [LocalPath : {Root}, RemotePath : RemotePaths, Recursive : BOOLEAN,
   Filters : {<<>>, << <<"*", ".", "l">> >>}, Enabled : {TRUE}]

EnumIdle ==
  /\ ltree = Nil
  /\ scan = Nil

\* a tree, the entry that fails in it (DirD cannot be read, or a file cannot
\* be lstat-ed), and a directory record to reconcile
EnumInit ==
  /\ \E opt \in SUBSET OptionalFiles :
       \E bad \in {NoEntry, DirD} \cup FixedFiles \cup opt :
         ltree = [files |-> FixedFiles \cup opt, bad |-> bad]
  /\ \E d \in EnumDirs : scan = [dir |-> d, pc |-> "idle", err |-> "nil", tasks |-> {}]

\* the entry's lstat, or the reading of the directory, fails
fails(path) == path = ltree.bad

\* filepath.Walk with getLocalFiles' walkFn: the walk visits the root's tree
\* in lexical order and walkFn returns the first error handed to it, which
\* ends the walk; the error of getLocalFiles is that error
filepathWalk(rootPath) ==
  LET visited == {f \in ltree.files : IsUnder(f, rootPath)} \cup {DirD}
  IN  [files |-> {f \in ltree.files : IsUnder(f, rootPath)},
       err |-> IF \E e \in visited : fails(e) THEN "walk error" ELSE "nil"]

\* os.ReadDir and the loop over its entries: a directory is passed over, an
\* entry whose Info fails is skipped
osReadDir(rootPath) ==
  [files |-> {f \in ltree.files :
                /\ IsUnder(f, rootPath)
                /\ Len(Elems(f)) = Len(Elems(rootPath)) + 1
                /\ ~fails(f)},
   err |-> "nil"]

\* Engine.getLocalFiles with the errors of the entries
localFiles(rootPath, recursive) ==
  IF recursive THEN filepathWalk(rootPath) ELSE osReadDir(rootPath)

\* Engine.syncDirectory: the enumeration, then a task for every file that
\* passes shouldSyncFile
SyncDirectory ==
  /\ scan.pc = "idle"
  /\ LET lf == localFiles(scan.dir.LocalPath, scan.dir.Recursive)
     IN  scan' = IF lf.err # "nil"
                 THEN [scan EXCEPT !.pc = "failed", !.err = "failed to get local files"]
                 ELSE [scan EXCEPT !.pc = "done",
                         !.tasks = {f \in lf.files : shouldSyncFile(f, scan.dir.Filters)}]
  /\ UNCHANGED <<outsideEnum, ltree>>

NextEnum == SyncDirectory

(***************************************************************************)
(* Claims about the enumeration                                            *)
(***************************************************************************)
\* the files syncDirectory has to look at: those of the directory (of its
\* top level when it is not recursive) that do not fail themselves and are
\* not inside the subdirectory that cannot be read
eligible ==
  {f \in ltree.files :
     /\ IsUnder(f, scan.dir.LocalPath)
     /\ (scan.dir.Recursive \/ Len(Elems(f)) = Len(Elems(scan.dir.LocalPath)) + 1)
     /\ ~fails(f)
     /\ ~(fails(DirD) /\ IsUnder(f, DirD))
     /\ shouldSyncFile(f, scan.dir.Filters)}

\* C33: an entry that fails during the local enumeration is never fatal to
\* the pass.  Recursive or not, when syncDirectory has returned, every other
\* eligible local file that needs an upload has its task.
C33_EntryErrorNotFatal ==
  (scan # Nil /\ scan.pc \in {"done", "failed"}) => eligible \subseteq scan.tasks

\* C34: reconciliation applies the filter set of the watcher and the filters
\* of the directory.  No task is made for a file whose base name begins
\* with a dot, ends in .tmp, .swp or ~, or matches a glob of the directory.
C34_ReconciliationFilters ==
  (scan # Nil /\ scan.pc = "done") =>
    \A f \in scan.tasks :
      /\ ~shouldSkipFile(f)
      /\ \A i \in 1..Len(scan.dir.Filters) : ~Match(scan.dir.Filters[i], Base(f))

(***************************************************************************)
(* The specifications                                                      *)
(***************************************************************************)
\* the lifecycle of the engine and the service
Init == LifeInit /\ ReconIdle /\ WatchIdle /\ TaskIdle /\ ServiceIdle /\ TransferIdle
    /\ DirsIdle /\ EnumIdle
Spec == Init /\ [][Next]_vars

\* the lifecycle with a fair scheduler: a Stop call that can take a step
\* takes it, and a goroutine that can see a stop signal sees it
SpecStop ==
  /\ Init /\ [][Next]_vars
  /\ \A c \in Callers : SF_vars(StopStep(c))
  /\ SF_vars(\E g \in BagToSet(gs) : GoroutineExit(g))
  /\ WF_vars(\E g \in BagToSet(gs) : GoroutineStep(g))

\* reconciliation passes and the uploads they queue
InitRecon == ReconInit /\ LifeIdle /\ WatchIdle /\ TaskIdle /\ ServiceIdle /\ TransferIdle
    /\ DirsIdle /\ EnumIdle
SpecRecon == InitRecon /\ [][NextRecon]_vars

\* the event pipeline from the file-system notification to the upload queue
InitWatch == WatchInit /\ LifeIdle /\ ReconIdle /\ TaskIdle /\ ServiceIdle /\ TransferIdle
    /\ DirsIdle /\ EnumIdle
SpecWatch == InitWatch /\ [][NextWatch]_vars

\* a worker executing tasks
InitTask == TaskInit /\ LifeIdle /\ ReconIdle /\ WatchIdle /\ ServiceIdle /\ TransferIdle
    /\ DirsIdle /\ EnumIdle
SpecTask == InitTask /\ [][NextTask]_vars

\* the worker under fair scheduling: a step it can take is taken
SpecWorker == InitTask /\ [][NextTask]_vars /\ WF_vars(WorkerStep)

\* the service and its reconfiguration; every thread's call makes progress
\* whenever it can
InitService == ServiceInit /\ LifeIdle /\ ReconIdle /\ WatchIdle /\ TaskIdle /\ TransferIdle
    /\ DirsIdle /\ EnumIdle
SpecService ==
  InitService /\ [][NextService]_vars /\ \A c \in Callers : SF_vars(CallStep(c))

\* the lifecycle with a file watcher that can fail to start
SpecStart == Init /\ [][NextStart]_vars

\* the dispatch of batched events over nested directories
InitDispatch ==
  DispatchInit /\ LifeIdle /\ ReconIdle /\ TaskIdle /\ ServiceIdle /\ TransferIdle
    /\ DirsIdle /\ EnumIdle
SpecDispatch == InitDispatch /\ [][NextDispatch]_vars

\* one upload or download task and its attempts
InitTransfer ==
  TransferInit /\ LifeIdle /\ ReconIdle /\ WatchIdle /\ TaskIdle /\ ServiceIdle
    /\ DirsIdle /\ EnumIdle
SpecTransfer == InitTransfer /\ [][NextTransfer]_vars

\* the local enumeration of one pass
InitEnum ==
  EnumInit /\ LifeIdle /\ ReconIdle /\ WatchIdle /\ TaskIdle /\ ServiceIdle /\ TransferIdle
    /\ DirsIdle
SpecEnum == InitEnum /\ [][NextEnum]_vars

\* the directory set at run time
InitDirs ==
  DirsInit /\ LifeIdle /\ ReconIdle /\ WatchIdle /\ TaskIdle /\ ServiceIdle /\ TransferIdle
    /\ EnumIdle
SpecDirs == InitDirs /\ [][NextDirs]_vars

====
